---- MODULE Spec2Model ----
(***************************************************************************)
(* A model of whatrecord's IOC shell interpreter (whatrecord/shell.py):    *)
(* the ShellState container, its command handlers, and the generator-based *)
(* script interpreter (interpret_shell_script / interpret_shell_line /     *)
(* _handle_input_redirect), the what-record query, the ScriptContainer and *)
(* the loaders (load_startup_scripts_with_metadata / _load_ioc, and        *)
(* load_startup_scripts).                                                  *)
(*                                                                         *)
(* Five specifications share the variables:                                *)
(*   Spec          one interpret_shell_script call on a fresh ShellState    *)
(*   SpecCommands  handle_command called directly, command after command   *)
(*   SpecPaths     _fix_path called under different stand-in tables        *)
(*   SpecLoader    one load_startup_scripts_with_metadata call             *)
(*   SpecSerial    one load_startup_scripts call                           *)
(*                                                                         *)
(* Python values are modelled as follows:                                  *)
(*   dict            a function whose DOMAIN is the set of keys            *)
(*   list / tuple    a sequence                                            *)
(*   str             a string (paths are strings, joined with \o)          *)
(*   an object       a record of its fields; an object whose identity      *)
(*                   matters (MutableLoadContext) also carries an id       *)
(*   a generator     a frame on the sequence `frames'                      *)
(***************************************************************************)
EXTENDS Integers, Sequences, FiniteSets, TLC

\* ------------------------------------------------------------------ bounds
\* Lines the caller's script may hold (the Iterable handed to
\* interpret_shell_script is consumed lazily, one line per step).
MaxLines == 3
\* Deepest load-context stack the model follows (self-inclusion recurses
\* without bound in the code; the model stops following it here).
MaxDepth == 4

\* ---------------------------------------------------------- python values
EmptyDict == <<>>

Put(d, k, v) == [x \in (DOMAIN d) \cup {k} |-> IF x = k THEN v ELSE d[x]]

\* dict.update(other) replacing the whole mapping.
Update_Replaces(d, other) == other

\* dict.update(other)
Update(d, other) ==
    [x \in (DOMAIN d) \cup (DOMAIN other) |->
        IF x \in DOMAIN other THEN other[x] ELSE d[x]]

\* A command result: None, a string / mapping rendered as text, or the
\* IocshCmdArgs marker carrying the command to re-invoke.
NoneValue == [type |-> "None", text |-> "", command |-> ""]

StrValue(t) == [type |-> "str", text |-> t, command |-> ""]

IocshCmdArgs(command) == [type |-> "IocshCmdArgs", text |-> "", command |-> command]

\* str.startswith
startswith(s, p) == Len(s) >= Len(p) /\ SubSeq(s, 1, Len(p)) = p

\* os.path.isabs / pathlib.Path.is_absolute
isabs(p) == startswith(p, "/")

\* pathlib's `a / b`: an absolute right operand replaces the left one.
PathJoin(a, b) == IF isabs(b) THEN b ELSE a \o "/" \o b

\* ------------------------------------------------------- the file system
\* Directories and files present on disk while the script is interpreted.
Dirs == {"/a", "/b"}

\* Startup-script files, as lists of lines (contents.splitlines()).
\*   plain.cmd  no input redirect, no iocshCmd
\*   x.cmd/y.cmd include each other; y.cmd changes directory first, so the
\*              second, relative `< y.cmd' of x.cmd names /b/y.cmd (absent)
\*   self.cmd   includes itself
\*   p.cmd/q.cmd include each other by absolute name
ScriptFiles ==
    [f \in {"/a/plain.cmd", "/a/x.cmd", "/a/y.cmd", "/a/self.cmd",
             "/a/p.cmd", "/a/q.cmd"} |->
        CASE f = "/a/plain.cmd" ->
                 << "epicsEnvSet IOC ioc1", "dbLoadRecords recs.db",
                    "unknownCommand arg", "" >>
          [] f = "/a/x.cmd"     -> << "< y.cmd" >>
          [] f = "/a/y.cmd"     -> << "cd /b", "< /a/x.cmd" >>
          [] f = "/a/self.cmd"  -> << "< /a/self.cmd" >>
          [] f = "/a/p.cmd"     -> << "< /a/q.cmd" >>
          [] f = "/a/q.cmd"     -> << "< /a/p.cmd" >>]

\* Database definition (dbd) files and record (db) files.
DbdFiles == {"/a/base.dbd"}

GoodDbFiles == {"/a/recs.db", "/a/more.db", "/a/grp.db"}

BadDbFiles == {"/a/bad.db"}

Files == (DOMAIN ScriptFiles) \cup DbdFiles \cup GoodDbFiles \cup BadDbFiles

\* util.read_text_file_with_hash: the content fingerprint of a file.
Sha(path) == "sha:" \o path

\* Record declarations of a db file, before macro expansion of the name:
\* record(<type>, "$(P)<suffix>") { field(...) } at line <line>.
\*   recs.db  two records; more.db declares the first of them again, with
\*   another type, another VAL and a field recs.db lacks; grp.db declares
\*   one structured group, under the name of that same record.
DbDecls(path) ==
    CASE path = "/a/recs.db" ->
             << [suffix |-> "rbv", record_type |-> "ao", line |-> 1,
                 fields |-> [f \in {"VAL", "INP"} |->
                                IF f = "VAL" THEN "1" ELSE "@asyn(P1,0)"]],
                [suffix |-> "set", record_type |-> "ao", line |-> 4,
                 fields |-> [f \in {"VAL", "OUT"} |->
                                IF f = "VAL" THEN "2" ELSE "@asyn(M1,0)"]] >>
      [] path = "/a/more.db" ->
             << [suffix |-> "rbv", record_type |-> "bo", line |-> 1,
                 fields |-> [f \in {"VAL", "OUT"} |->
                                IF f = "VAL" THEN "9" ELSE "@asynMask(P1,0,1)"]] >>
      [] OTHER -> << >>

\* Structured (PVA) group declarations of a db file.
DbGroups(path) ==
    IF path = "/a/grp.db"
    THEN << [suffix |-> "rbv", record_type |-> "PVA", line |-> 2,
             fields |-> [f \in {"+id"} |-> "grp"]] >>
    ELSE << >>

\* ------------------------------------------------------------ line parser
\* iocsh.parse_iocsh_line: the parse of each line text the scripts use, as
\* the fields of the IocshResult the interpreter reads: a parse error, the
\* redirects (mode "r" input, "w" output) and the argument vector.
Parsed(err, redirs, args) == [error |-> err, redirects |-> redirs, argv |-> args]

Redirect(m, n) == [mode |-> m, name |-> n]

parse_iocsh_line(line) ==
    CASE line = "" -> Parsed(FALSE, << >>, << >>)
      [] line = "'oops" -> Parsed(TRUE, << >>, << >>)
      [] line = "< /old/plain.cmd 'oops" ->
             Parsed(TRUE, << Redirect("r", "/old/plain.cmd") >>, << >>)
      [] line = "dbLoadDatabase base.dbd" ->
             Parsed(FALSE, << >>, << "dbLoadDatabase", "base.dbd" >>)
      [] line = "dbLoadRecords recs.db P=t:" ->
             Parsed(FALSE, << >>, << "dbLoadRecords", "recs.db", "P=t:" >>)
      [] line = "dbLoadRecords recs.db" ->
             Parsed(FALSE, << >>, << "dbLoadRecords", "recs.db" >>)
      [] line = "dbLoadRecords more.db P=t:" ->
             Parsed(FALSE, << >>, << "dbLoadRecords", "more.db", "P=t:" >>)
      [] line = "dbLoadRecords bad.db P=t:" ->
             Parsed(FALSE, << >>, << "dbLoadRecords", "bad.db", "P=t:" >>)
      [] line = "iocInit" -> Parsed(FALSE, << >>, << "iocInit" >>)
      [] line = "asynSetOption P1 0 baud 9600" ->
             Parsed(FALSE, << >>, << "asynSetOption", "P1", "0", "baud", "9600" >>)
      [] line = "drvAsynIPPortConfigure P1 host:1" ->
             Parsed(FALSE, << >>, << "drvAsynIPPortConfigure", "P1", "host:1" >>)
      [] line = "unknownCommand arg" ->
             Parsed(FALSE, << >>, << "unknownCommand", "arg" >>)
      [] line = "cd /b" -> Parsed(FALSE, << >>, << "cd", "/b" >>)
      [] line = "epicsEnvSet IOC ioc1" ->
             Parsed(FALSE, << >>, << "epicsEnvSet", "IOC", "ioc1" >>)
      [] line = "epicsEnvSet IOC ioc1 > env.txt" ->
             Parsed(FALSE, << Redirect("w", "env.txt") >>,
                    << "epicsEnvSet", "IOC", "ioc1" >>)
      [] line = "< /old/plain.cmd" ->
             Parsed(FALSE, << Redirect("r", "/old/plain.cmd") >>, << >>)
      [] line = "< x.cmd" -> Parsed(FALSE, << Redirect("r", "x.cmd") >>, << >>)
      [] line = "< y.cmd" -> Parsed(FALSE, << Redirect("r", "y.cmd") >>, << >>)
      [] line = "< /a/x.cmd" ->
             Parsed(FALSE, << Redirect("r", "/a/x.cmd") >>, << >>)
      [] line = "< missing.cmd" ->
             Parsed(FALSE, << Redirect("r", "missing.cmd") >>, << >>)
      [] line = "< /a/self.cmd" ->
             Parsed(FALSE, << Redirect("r", "/a/self.cmd") >>, << >>)
      [] line = "< /a/p.cmd" ->
             Parsed(FALSE, << Redirect("r", "/a/p.cmd") >>, << >>)
      [] line = "< /a/q.cmd" ->
             Parsed(FALSE, << Redirect("r", "/a/q.cmd") >>, << >>)
      [] line = "iocshCmd 'dbLoadRecords recs.db P=t:'" ->
             Parsed(FALSE, << >>, << "iocshCmd", "dbLoadRecords recs.db P=t:" >>)
      [] OTHER -> Parsed(TRUE, << >>, << >>)

\* The lines a caller's script is drawn from.
ScriptLines ==
    { "", "'oops", "< /old/plain.cmd 'oops",
      "dbLoadDatabase base.dbd", "dbLoadRecords recs.db P=t:",
      "dbLoadRecords bad.db P=t:", "iocInit",
      "asynSetOption P1 0 baud 9600", "drvAsynIPPortConfigure P1 host:1",
      "unknownCommand arg", "cd /b", "epicsEnvSet IOC ioc1 > env.txt",
      "< /old/plain.cmd", "< x.cmd", "< missing.cmd", "< /a/self.cmd",
      "< /a/p.cmd",
      "iocshCmd 'dbLoadRecords recs.db P=t:'" }

\* MacroContext.definitions_to_dict: "NAME=VALUE,..." as a mapping.
definitions_to_dict(raw) ==
    IF raw = "P=t:" THEN [k \in {"P"} |-> "t:"] ELSE EmptyDict

\* ------------------------------------------------------------ ShellState
NoDbd == "None"

\* ShellState(): the dataclass defaults, with the working directory, macros
\* and stand-in table an IOC's metadata seeds (LoadedIoc.from_metadata).
NewShellState ==
    [ ioc_initialized     |-> FALSE,
      variables           |-> EmptyDict,
      standin_directories |-> << [from_ |-> "/old/", to |-> "/a/"] >>,
      working_directory   |-> "/a",
      database_definition |-> NoDbd,
      database            |-> EmptyDict,
      pva_database        |-> EmptyDict,
      load_context        |-> << >>,
      asyn_ports          |-> EmptyDict,
      loaded_files        |-> EmptyDict,
      macro_context       |-> EmptyDict,
      ioc_info            |-> [loaded_files |-> EmptyDict] ]

\* MutableLoadContext(name, line): a mutable object, so it carries an
\* identity; it compares equal to another by name and line (dataclass eq).
MutableLoadContext(id, name, line) == [id |-> id, name |-> name, line |-> line]

CtxEq(a, b) == a.name = b.name /\ a.line = b.line

\* MutableLoadContext.to_load_context
to_load_context(ctx) == [name |-> ctx.name, line |-> ctx.line]

get_load_context(s) ==
    [i \in 1..Len(s.load_context) |-> to_load_context(s.load_context[i])]

\* The first stand-in entry, in the table's iteration order, whose prefix
\* the filename starts with; 0 when there is none.
FirstStandin(s, filename) ==
    LET hits == {i \in 1..Len(s.standin_directories) :
                    startswith(filename, s.standin_directories[i].from_)}
    IN IF hits = {} THEN 0 ELSE CHOOSE i \in hits : \A j \in hits : i <= j

_fix_path(s, filename) ==
    LET i == FirstStandin(s, filename) IN
    IF isabs(filename) /\ i # 0
    THEN LET e == s.standin_directories[i]
         IN e.to \o SubSeq(filename, Len(e.from_) + 1, Len(filename))
    ELSE PathJoin(s.working_directory, filename)

\* load_file: resolve, read (raising when the file is absent), and record
\* the fingerprint in both ledgers.
load_file(s, filename) ==
    LET fn == _fix_path(s, filename) IN
    IF fn \in Files
    THEN [raised |-> FALSE, filename |-> fn,
          sh |-> [s EXCEPT !.loaded_files = Put(@, fn, Sha(fn)),
                           !.ioc_info.loaded_files = Put(@, fn, Sha(fn))]]
    ELSE [raised |-> TRUE, filename |-> fn, sh |-> s]

\* What a handler call comes to: the state it leaves, and either the value
\* it returns or the exception it raises.
Returns(s, value) == [sh |-> s, raised |-> FALSE, exc |-> "", result |-> value]

Raises(s, exc) == [sh |-> s, raised |-> TRUE, exc |-> exc, result |-> NoneValue]

\* Positional argument i of a call, or the parameter's default.
Arg(args, i, default) == IF Len(args) >= i THEN args[i] ELSE default

\* RecordInstance
RecordInstance(name, rtype, fields, context, pva) ==
    [name |-> name, record_type |-> rtype, fields |-> fields,
     context |-> context, is_pva |-> pva]

\* Database.from_file under the scoped macros: the records and groups the
\* file declares, in declaration order, each with the one-entry context
\* (file, line) of its declaration; a file that is not a well-formed record
\* file raises.
Database_from_file(filename, macros) ==
    LET prefix == IF "P" \in DOMAIN macros THEN macros["P"] ELSE ""
        inst(d, pva) == RecordInstance(
            prefix \o d.suffix, d.record_type, d.fields,
            << [name |-> filename, line |-> d.line] >>, pva)
    IN [raised |-> filename \notin GoodDbFiles,
        records |-> [i \in 1..Len(DbDecls(filename)) |->
                        inst(DbDecls(filename)[i], FALSE)],
        pva_groups |-> [i \in 1..Len(DbGroups(filename)) |->
                           inst(DbGroups(filename)[i], TRUE)]]

\* ------------------------------------------------------ command handlers
handle_iocshRegisterVariable(s, args) ==
    IF Len(args) < 2 THEN Raises(s, "TypeError")
    ELSE Returns([s EXCEPT !.variables = Put(@, args[1], args[2])],
                 StrValue("Registered variable"))

\* MacroContext.define(**{variable: value}); no env_set_<variable> hook
\* exists for the variables the scripts set.
handle_epicsEnvSet(s, args) ==
    IF Len(args) < 2 THEN Raises(s, "TypeError")
    ELSE Returns([s EXCEPT !.macro_context = Put(@, args[1], args[2])],
                 StrValue("variable"))

handle_epicsEnvShow(s, args) == Returns(s, StrValue("macros"))

handle_iocshCmd(s, args) ==
    IF Len(args) < 1 THEN Raises(s, "TypeError")
    ELSE Returns(s, IocshCmdArgs(args[1]))

handle_cd(s, args) ==
    IF Len(args) < 1 THEN Raises(s, "TypeError")
    ELSE LET path == _fix_path(s, args[1])
             new_dir == IF isabs(path) THEN path
                        ELSE PathJoin(s.working_directory, path)
         IN IF new_dir \notin Dirs \cup Files
            THEN Raises(s, "RuntimeError")
            ELSE Returns([s EXCEPT !.working_directory = new_dir],
                         StrValue("New working directory"))

handle_iocInit(s, args) == Returns([s EXCEPT !.ioc_initialized = TRUE], NoneValue)

\* MacroContext.scoped(**macros), on entry: a scope is pushed that holds
\* the macros, laid over what the context resolved before.
scoped_enter(macro_context, macros) == Update(macro_context, macros)

\* A scoped() whose exit leaves the pushed scope in place.
scoped_exit_Leaks(before, inside) == inside

\* MacroContext.scoped, on exit (the block returned or raised): the scope
\* is popped, and the context resolves what it did before the entry.
scoped_exit(before, inside) == before

\* The ShellState inside `with self.macro_context.scoped(**macros)'.
Scoped(s, macros) == [s EXCEPT !.macro_context = scoped_enter(@, macros)]

\* The ShellState `inside' when the with block entered at `s' is left.
Unscoped(s, inside) ==
    [inside EXCEPT !.macro_context = scoped_exit(s.macro_context, @)]

\* Lines 356-368 of handle_dbLoadDatabase, given what load_file did:
\* Database.from_string, under the scoped macros, raises on a file that
\* is no database definition.
AttachDatabase(s, lf, macros) ==
    IF lf.raised THEN Raises(s, "FileNotFoundError")
    ELSE IF lf.filename \notin DbdFiles
         THEN Raises(Unscoped(lf.sh, Scoped(lf.sh, macros)), "DatabaseLoadFailure")
    ELSE Returns(Unscoped(lf.sh, [Scoped(lf.sh, macros) EXCEPT
                                     !.database_definition = lf.filename]),
                 StrValue("Loaded database"))

\* handle_dbLoadDatabase with the commented-out line 352 in force.
handle_dbLoadDatabase_RaisesWhenLoaded(s, args) ==
    IF Len(args) < 1 THEN Raises(s, "TypeError")
    ELSE IF s.ioc_initialized THEN Raises(s, "RuntimeError")
    ELSE IF s.database_definition # NoDbd THEN Raises(s, "RuntimeError")
    ELSE AttachDatabase(s, load_file(s, args[1]),
                        definitions_to_dict(Arg(args, 3, "")))

handle_dbLoadDatabase(s, args) ==
    IF Len(args) < 1 THEN Raises(s, "TypeError")
    ELSE IF s.ioc_initialized THEN Raises(s, "RuntimeError")
    ELSE IF s.database_definition # NoDbd
         THEN Returns(s, StrValue("whatrecord: TODO multiple dbLoadDatabase"))
    ELSE AttachDatabase(s, load_file(s, args[1]),
                        definitions_to_dict(Arg(args, 3, "")))

\* Lines 405-412: merge the records of one file, in declaration order.
RECURSIVE MergeRecords(_, _, _, _)
MergeRecords(database, records, i, context) ==
    IF i > Len(records) THEN database
    ELSE LET rec == records[i]
             name == rec.name
             merged ==
                 IF name \notin DOMAIN database
                 THEN Put(database, name,
                          [rec EXCEPT !.context = context \o rec.context])
                 ELSE Put(database, name,
                          [database[name] EXCEPT
                              !.context = @ \o rec.context,
                              !.fields = Update(@, rec.fields)])
         IN MergeRecords(merged, records, i + 1, context)

\* Lines 414-421: merge the groups of one file. A group already in the
\* structured store is looked up in the classic store (line 419), which
\* raises KeyError when no classic record has that name.
RECURSIVE MergeGroups(_, _, _, _)
MergeGroups(s, groups, i, context) ==
    IF i > Len(groups) THEN [sh |-> s, raised |-> FALSE]
    ELSE LET rec == groups[i]
             name == rec.name
         IN IF name \notin DOMAIN s.pva_database
            THEN MergeGroups(
                     [s EXCEPT !.pva_database =
                         Put(@, name, [rec EXCEPT !.context = context \o rec.context])],
                     groups, i + 1, context)
            ELSE IF name \notin DOMAIN s.database
                 THEN [sh |-> s, raised |-> TRUE]
            ELSE MergeGroups(
                     [s EXCEPT !.database[name] =
                         [@ EXCEPT !.context = @ \o rec.context,
                                   !.fields = Update(@, rec.fields)]],
                     groups, i + 1, context)

\* Lines 404-423 of handle_dbLoadRecords, given the parsed file.
MergeDatabase(s, db, context) ==
    IF db.raised THEN Raises(s, "DatabaseLoadFailure")
    ELSE LET g == MergeGroups(
                      [s EXCEPT !.database = MergeRecords(@, db.records, 1, context)],
                      db.pva_groups, 1, context)
         IN IF g.raised THEN Raises(g.sh, "KeyError")
            ELSE Returns(g.sh, StrValue("ShortLinterResults"))

\* Lines 375-423 of handle_dbLoadRecords, given what load_file did.
LoadRecords(s, lf, macros) ==
    IF lf.raised THEN Raises(s, "FileNotFoundError")
    ELSE MergeDatabase(Unscoped(lf.sh, Scoped(lf.sh, macros)),
                       Database_from_file(lf.filename,
                                          Scoped(lf.sh, macros).macro_context),
                       get_load_context(lf.sh))

\* LoadRecords behind a guard that lacks one of the two checks.
GuardedLoadRecords(s, args, guard) ==
    IF Len(args) < 2 THEN Raises(s, "TypeError")
    ELSE IF guard THEN Raises(s, "RuntimeError")
    ELSE LoadRecords(s, load_file(s, args[1]), definitions_to_dict(args[2]))

\* handle_dbLoadRecords without the check of lines 371-372.
handle_dbLoadRecords_NoSchemaCheck(s, args) ==
    GuardedLoadRecords(s, args, s.ioc_initialized)

\* handle_dbLoadRecords without the check of lines 373-374.
handle_dbLoadRecords_NoInitCheck(s, args) ==
    GuardedLoadRecords(s, args, s.database_definition = NoDbd)

handle_dbLoadRecords(s, args) ==
    IF Len(args) < 2 THEN Raises(s, "TypeError")
    ELSE IF s.database_definition = NoDbd THEN Raises(s, "RuntimeError")
    ELSE IF s.ioc_initialized THEN Raises(s, "RuntimeError")
    ELSE LoadRecords(s, load_file(s, args[1]), definitions_to_dict(args[2]))

handle_dbl(s, args) == Returns(s, StrValue("[]"))

\* AsynPortBase and its subclasses: the fields the shell sets.
AsynPort(kind, context, name, parent) ==
    [kind |-> kind, context |-> context, name |-> name, parent |-> parent,
     options |-> EmptyDict, motors |-> EmptyDict]

NoParent == "None"

handle_drvAsynSerialPortConfigure(s, args) ==
    IF Arg(args, 1, "") = "" THEN Returns(s, NoneValue)
    ELSE Returns([s EXCEPT !.asyn_ports = Put(@, args[1],
                     AsynPort("AsynSerialPort", get_load_context(s), args[1], NoParent))],
                 NoneValue)

handle_drvAsynIPPortConfigure(s, args) ==
    IF Arg(args, 1, "") # ""
    THEN Returns([s EXCEPT !.asyn_ports = Put(@, args[1],
                     AsynPort("AsynIPPort", get_load_context(s), args[1], NoParent))],
                 NoneValue)
    ELSE Returns(s, NoneValue)

handle_asynSetOption(s, args) ==
    IF Len(args) < 4 THEN Raises(s, "TypeError")
    ELSE IF args[1] \notin DOMAIN s.asyn_ports THEN Raises(s, "KeyError")
    ELSE Returns([s EXCEPT !.asyn_ports[args[1]].options =
                     Put(@, args[3], [context |-> get_load_context(s),
                                      key |-> args[3], value |-> args[4]])],
                 NoneValue)

\* handle_NDPvaConfigure: implicitly creates the PVA group named pvName,
\* replacing a group of that name.
handle_NDPvaConfigure(s, args) ==
    IF Len(args) < 6 THEN Returns(s, NoneValue)
    ELSE Returns([s EXCEPT !.pva_database = Put(@, args[6],
                     RecordInstance(args[6], "PVA", EmptyDict,
                                    get_load_context(s), TRUE))],
                 StrValue("metadata"))

\* _generic_motor_handler: the parameter names and values, as text.
_generic_motor_handler(s, name, args) == Returns(s, StrValue("arguments"))

\* _motor_wrapper: the wrapped handler runs first; when it returns, the
\* generic parameter text is the result.
_motor_wrapper(name, args, out) ==
    IF out.raised THEN out ELSE _generic_motor_handler(out.sh, name, args)

adsAsynPortDriverConfigure(s, args) ==
    IF Arg(args, 1, "") # ""
    THEN Returns([s EXCEPT !.asyn_ports = Put(@, args[1],
                     AsynPort("AdsAsynPort", get_load_context(s), args[1], NoParent))],
                 NoneValue)
    ELSE Returns(s, NoneValue)

handle_adsAsynPortDriverConfigure(s, args) ==
    _motor_wrapper("adsAsynPortDriverConfigure", args,
                   adsAsynPortDriverConfigure(s, args))

\* The body of handle_drvAsynMotorConfigure: port_name defaults to "".
drvAsynMotorConfigure_(s, port_name) ==
    Returns([s EXCEPT !.asyn_ports = Put(@, port_name,
                AsynPort("AsynMotor", get_load_context(s), port_name, NoParent))],
            NoneValue)

handle_drvAsynMotorConfigure(s, args) ==
    _motor_wrapper("drvAsynMotorConfigure", args,
                   drvAsynMotorConfigure_(s, Arg(args, 1, "")))

\* The body of handle_EthercatMCCreateController: the motor is tied to the
\* asyn port it names (KeyError when that port is not registered) and to
\* the registry.
EthercatMCCreateController_(s, motor_port, asyn_port) ==
    IF asyn_port \notin DOMAIN s.asyn_ports THEN Raises(s, "KeyError")
    ELSE Returns(
        [s EXCEPT !.asyn_ports =
            Put([@ EXCEPT ![asyn_port].motors =
                    Put(@, motor_port,
                        AsynPort("AsynMotor", get_load_context(s), motor_port, asyn_port))],
                motor_port,
                AsynPort("AsynMotor", get_load_context(s), motor_port, asyn_port))],
        NoneValue)

handle_EthercatMCCreateController(s, args) ==
    _motor_wrapper("EthercatMCCreateController", args,
                   EthercatMCCreateController_(s, Arg(args, 1, ""), Arg(args, 2, "")))

\* The names find_handlers registers: one per handle_<name> method.
_handlers ==
    { "iocshRegisterVariable", "epicsEnvSet", "epicsEnvShow", "iocshCmd",
      "cd", "chdir", "iocInit", "dbLoadDatabase", "dbLoadRecords", "dbl",
      "NDPvaConfigure", "drvAsynSerialPortConfigure", "drvAsynIPPortConfigure",
      "adsAsynPortDriverConfigure", "asynSetOption", "drvAsynMotorConfigure",
      "EthercatMCCreateController" }

\* handler(*args) for a registered name.
CallHandler(s, command, args) ==
    CASE command = "iocshRegisterVariable" -> handle_iocshRegisterVariable(s, args)
      [] command = "epicsEnvSet" -> handle_epicsEnvSet(s, args)
      [] command = "epicsEnvShow" -> handle_epicsEnvShow(s, args)
      [] command = "iocshCmd" -> handle_iocshCmd(s, args)
      [] command \in {"cd", "chdir"} -> handle_cd(s, args)
      [] command = "iocInit" -> handle_iocInit(s, args)
      [] command = "dbLoadDatabase" -> handle_dbLoadDatabase(s, args)
      [] command = "dbLoadRecords" -> handle_dbLoadRecords(s, args)
      [] command = "dbl" -> handle_dbl(s, args)
      [] command = "drvAsynSerialPortConfigure" ->
             handle_drvAsynSerialPortConfigure(s, args)
      [] command = "drvAsynIPPortConfigure" ->
             handle_drvAsynIPPortConfigure(s, args)
      [] command = "asynSetOption" -> handle_asynSetOption(s, args)
      [] command = "NDPvaConfigure" -> handle_NDPvaConfigure(s, args)
      [] command = "adsAsynPortDriverConfigure" ->
             handle_adsAsynPortDriverConfigure(s, args)
      [] command = "drvAsynMotorConfigure" ->
             handle_drvAsynMotorConfigure(s, args)
      [] command = "EthercatMCCreateController" ->
             handle_EthercatMCCreateController(s, args)

\* unhandled raising instead of returning None.
unhandled_Raises(s, command, args) == Raises(s, "NotImplementedError")

\* unhandled(command, args): the body is `...', so it returns None.
unhandled(s, command, args) == Returns(s, NoneValue)

\* handle_command(command, *args)
handle_command(s, argv) ==
    LET command == argv[1]
        args == Tail(argv)
    IN IF command \in _handlers
       THEN CallHandler(s, command, args)
       ELSE unhandled(s, command, args)

\* ------------------------------------------------------------- port links
\* str.strip(chars): drop leading and trailing characters that are in chars.
RECURSIVE lstrip(_, _)
lstrip(str, chars) ==
    IF Len(str) > 0 /\ SubSeq(str, 1, 1) \in chars
    THEN lstrip(SubSeq(str, 2, Len(str)), chars)
    ELSE str

RECURSIVE rstrip(_, _)
rstrip(str, chars) ==
    IF Len(str) > 0 /\ SubSeq(str, Len(str), Len(str)) \in chars
    THEN rstrip(SubSeq(str, 1, Len(str) - 1), chars)
    ELSE str

strip(str, chars) == rstrip(lstrip(str, chars), chars)

Whitespace == {" "}

\* str.split(sep)[0]: the text before the first occurrence of sep.
Before(str, sep) ==
    LET at == {i \in 1..(Len(str) - Len(sep) + 1) :
                  SubSeq(str, i, i + Len(sep) - 1) = sep}
    IN IF at = {} THEN str
       ELSE SubSeq(str, 1, (CHOOSE i \in at : \A j \in at : i <= j) - 1)

\* dict.get(key, None) on the port registry
NoPort == [kind |-> "None"]

PortGet(s, name) ==
    IF name \in DOMAIN s.asyn_ports THEN s.asyn_ports[name] ELSE NoPort

\* get_asyn_port_from_record: the INP field, or else the OUT field; of a
\* value that starts with "@asyn", the text between that and the next
\* "@asyn", stripped of blanks and parentheses, up to its first comma.
get_asyn_port_from_record(s, inst) ==
    IF {"INP", "OUT"} \cap DOMAIN inst.fields = {} THEN NoPort
    ELSE LET rec_field == IF "INP" \in DOMAIN inst.fields
                          THEN inst.fields["INP"] ELSE inst.fields["OUT"]
             value == strip(rec_field, Whitespace)
         IN IF ~startswith(value, "@asyn") THEN NoPort
            ELSE PortGet(s, strip(
                     Before(strip(Before(SubSeq(value, 6, Len(value)), "@asyn"),
                                  {" ", "(", ")"}),
                            ","),
                     Whitespace))

\* whatrec(state, rec): None when neither store has the record; else the
\* instances and the linked ports, a parent port ahead of its child.
NoWhatRecord == [name |-> "", instances |-> << >>, asyn_ports |-> << >>, found |-> FALSE]

WhatRecPorts(s, asyn_port) ==
    IF asyn_port = NoPort THEN << >>
    ELSE IF asyn_port.parent # NoParent
         THEN << PortGet(s, asyn_port.parent), asyn_port >>
    ELSE << asyn_port >>

whatrec(s, rec, include_pva) ==
    LET has_v3 == rec \in DOMAIN s.database
        has_pva == include_pva /\ rec \in DOMAIN s.pva_database
    IN IF ~has_v3 /\ ~has_pva THEN NoWhatRecord
       ELSE [name |-> rec, found |-> TRUE,
             instances |->
                 (IF has_v3 THEN << s.database[rec] >> ELSE << >>)
                 \o (IF has_pva THEN << s.pva_database[rec] >> ELSE << >>),
             asyn_ports |->
                 IF has_v3
                 THEN WhatRecPorts(s, get_asyn_port_from_record(s, s.database[rec]))
                 ELSE << >>]

\* ------------------------------------------------------------ interpreter
\* IocshResult, as parse_iocsh_line returns it: the line, the load context
\* at the time of the parse, no error and no result yet.
IocshResult(line, context) ==
    [line |-> line, context |-> context, error |-> "", result |-> NoneValue]

\* What one step of interpret_shell_line comes to: the state it leaves, the
\* results it yields, the generator it delegates to next (`yield from'), and
\* whether an exception leaves it. `outcome' is what handle_command did.
NoCall == [kind |-> "none", name |-> "", command |-> "",
           recurse |-> FALSE, raise_on_error |-> FALSE]

ScriptCall(name, recurse, raise_on_error) ==
    [kind |-> "script", name |-> name, command |-> "",
     recurse |-> recurse, raise_on_error |-> raise_on_error]

LineCall(command, recurse, raise_on_error) ==
    [kind |-> "line", name |-> "", command |-> command,
     recurse |-> recurse, raise_on_error |-> raise_on_error]

NoOutcome == [sh |-> NewShellState, raised |-> FALSE, exc |-> "none",
              result |-> NoneValue]

Effect(s, yields, call, raised, outcome) ==
    [sh |-> s, yields |-> yields, call |-> call, raised |-> raised,
     outcome |-> outcome]

\* EnterRedirect going straight to the nested script.
EnterRedirect_NoYield(s, lf, shresult, recurse, raise_on_error) ==
    IF lf.raised
    THEN Effect(s, << [shresult EXCEPT !.error = "FileNotFoundError"] >>,
                NoCall, FALSE, NoOutcome)
    ELSE Effect(lf.sh, << >>,
                ScriptCall(lf.filename, recurse, FALSE), FALSE, NoOutcome)

\* An _handle_input_redirect that does not enter a file some running
\* interpret_shell_script already reads.
EnterRedirect_CycleGuard(s, lf, shresult, recurse, raise_on_error) ==
    IF lf.raised
    THEN Effect(s, << [shresult EXCEPT !.error = "FileNotFoundError"] >>,
                NoCall, FALSE, NoOutcome)
    ELSE IF \E i \in DOMAIN s.load_context : s.load_context[i].name = lf.filename
         THEN Effect(lf.sh, << [shresult EXCEPT !.error = "RecursionError"] >>,
                     NoCall, FALSE, NoOutcome)
    ELSE Effect(lf.sh, << shresult >>,
                ScriptCall(lf.filename, recurse, FALSE), FALSE, NoOutcome)

\* Lines 162-174 of _handle_input_redirect, given what load_file did. The
\* nested interpret_shell_script call is given recurse and name only, so it
\* runs with raise_on_error at its default.
EnterRedirect(s, lf, shresult, recurse, raise_on_error) ==
    IF lf.raised
    THEN Effect(s, << [shresult EXCEPT !.error = "FileNotFoundError"] >>,
                NoCall, FALSE, NoOutcome)
    ELSE Effect(lf.sh, << shresult >>,
                ScriptCall(lf.filename, recurse, FALSE), FALSE, NoOutcome)

\* _handle_input_redirect without the `yield shresult' of line 169.
_handle_input_redirect_NoYield(s, redir, shresult, recurse, raise_on_error) ==
    EnterRedirect_NoYield(s, load_file(s, redir.name), shresult, recurse,
                          raise_on_error)

_handle_input_redirect(s, redir, shresult, recurse, raise_on_error) ==
    EnterRedirect(s, load_file(s, redir.name), shresult, recurse, raise_on_error)

\* Lines 197-211 of interpret_shell_line, given what handle_command did
\* (`out'): the try/except around the dispatch, the yield, and the
\* re-invocation of an iocshCmd command, which is given recurse only, so it
\* too runs with raise_on_error at its default.
AfterCommand(shresult, out, recurse, raise_on_error) ==
    IF out.raised
    THEN IF raise_on_error
         THEN Effect(out.sh, << >>, NoCall, TRUE, out)
         ELSE Effect(out.sh,
                     << [shresult EXCEPT !.error = "Failed to execute"] >>,
                     NoCall, FALSE, out)
    ELSE Effect(out.sh, << [shresult EXCEPT !.result = out.result] >>,
                IF out.result.type = "IocshCmdArgs"
                THEN LineCall(out.result.command, recurse, FALSE)
                ELSE NoCall,
                FALSE, out)

\* Lines 184-214 of interpret_shell_line, given the parse `p' of the line.
Branch(s, p, shresult, recurse, raise_on_error) ==
    IF p.error
    THEN Effect(s, << [shresult EXCEPT !.error = "parse error"] >>,
                NoCall, FALSE, NoOutcome)
    ELSE IF SelectSeq(p.redirects, LAMBDA r : r.mode = "r") # << >>
    THEN IF recurse
         THEN _handle_input_redirect(
                  s, SelectSeq(p.redirects, LAMBDA r : r.mode = "r")[1],
                  shresult, recurse, raise_on_error)
         ELSE Effect(s, << >>, NoCall, FALSE, NoOutcome)
    ELSE IF p.argv # << >>
    THEN AfterCommand(shresult, handle_command(s, p.argv), recurse, raise_on_error)
    ELSE Effect(s, << shresult >>, NoCall, FALSE, NoOutcome)

\* interpret_shell_line with the except clause re-raising whatever the
\* caller asked for.
interpret_shell_line_AlwaysRaises(s, line, recurse, raise_on_error) ==
    Branch(s, parse_iocsh_line(line), IocshResult(line, get_load_context(s)),
           recurse, TRUE)

\* interpret_shell_line with the except clause never re-raising.
interpret_shell_line_NeverRaises(s, line, recurse, raise_on_error) ==
    Branch(s, parse_iocsh_line(line), IocshResult(line, get_load_context(s)),
           recurse, FALSE)

interpret_shell_line(s, line, recurse, raise_on_error) ==
    Branch(s, parse_iocsh_line(line), IocshResult(line, get_load_context(s)),
           recurse, raise_on_error)

\* list.remove(x): drops the first element equal to x; 0 when none is.
IndexOf(stack, x) ==
    LET hits == {i \in 1..Len(stack) : CtxEq(stack[i], x)}
    IN IF hits = {} THEN 0 ELSE CHOOSE i \in hits : \A j \in hits : i <= j

list_remove(stack, x) ==
    LET i == IndexOf(stack, x)
    IN [j \in 1..(Len(stack) - 1) |-> IF j < i THEN stack[j] ELSE stack[j + 1]]

\* ----------------------------------------------------------------- state
VARIABLES
    sh,       \* the ShellState
    frames,   \* the running generators, outermost first: one per
              \* interpret_shell_script, and one per pending re-invocation
              \* of an iocshCmd command
    status,   \* "new", "running", "done" (lines exhausted), "raised"
    opts,     \* the caller's recurse and raise_on_error arguments
    results,  \* every IocshResult yielded to the caller so far, in order
    nctx,     \* MutableLoadContext objects created so far
    ninv,     \* interpret_shell_line invocations so far
    last,     \* the latest handle_command call: arguments, state before
              \* and after, and how it ended
    exits,    \* every interpret_shell_script exit: the load-context stack
              \* before the call and after the finally clause
    atInit,   \* the schema and record store when iocInit was first handled
    firstViolation, \* the interpret_shell_line invocation that first
              \* dispatched a load-order violation; 0 when none has
    \* load_startup_scripts_with_metadata:
    call,     \* its arguments: processes, standin_directories, and which
              \* of the md_items name a startup script that is missing
    job,      \* per IOC load: "pending", "running", "succeeded", "failed"
    future,   \* per IOC load: what its future holds once it is done
    work,     \* per worker process: the ShellState it built
    completed,\* the loads in the order their futures were done
    coord,    \* the coordinating coroutine: futures handled, scripts added,
              \* and whether it has returned the container
    container,\* the shared ScriptContainer
    lastAdd,  \* the latest add_script call: the container before it and
              \* the LoadedIoc added
    actor     \* who took the latest step

svars == << sh, frames, status, opts, results, nctx, ninv, last, exits, atInit,
            firstViolation >>

lvars == << call, job, future, work, completed, coord, container, lastAdd,
            actor >>

vars == << svars, lvars >>

\* The name the caller gives its script.
TopName == "st.cmd"

NoLast ==
    [inv |-> 0, line |-> "", argv |-> << >>, before |-> NewShellState,
     after |-> NewShellState, raised |-> FALSE, result |-> NoneValue,
     strict |-> FALSE, propagated |-> FALSE]

\* ScriptContainer()
ScriptContainer ==
    [database |-> EmptyDict, pva_database |-> EmptyDict, scripts |-> EmptyDict,
     loaded_files |-> EmptyDict]

NoAdd == [done |-> FALSE]

\* The loader call at its start: no future handled, nothing added, not
\* returned, not interrupted, no exception leaving it; `pendingThen' and
\* `addedThen' are the loads not yet started and the loads added when the
\* interrupt arrived.
NewCoordinator ==
    [handled |-> 0, added |-> << >>, returned |-> FALSE, interrupted |-> FALSE,
     raised |-> "", pendingThen |-> {}, addedThen |-> << >>]

\* No load_startup_scripts_with_metadata call is under way.
NoLoader ==
    /\ call = [processes |-> 0, standin_directories |-> "None", missing |-> {}]
    /\ job = << >>
    /\ future = << >>
    /\ work = << >>
    /\ completed = << >>
    /\ coord = NewCoordinator
    /\ container = ScriptContainer
    /\ lastAdd = NoAdd
    /\ actor = [kind |-> "none", id |-> 0]

Init ==
    /\ NoLoader
    /\ sh = NewShellState
    /\ frames = << >>
    /\ status = "new"
    /\ opts = [recurse |-> TRUE, raise_on_error |-> FALSE]
    /\ results = << >>
    /\ nctx = 0
    /\ ninv = 0
    /\ last = NoLast
    /\ exits = << >>
    /\ atInit = [done |-> FALSE, database |-> EmptyDict,
                 database_definition |-> NoDbd]
    /\ firstViolation = 0

ScriptFrame(ctx, file, recurse, raise_on_error, entry) ==
    [kind |-> "script", load_ctx |-> ctx, file |-> file, command |-> "",
     recurse |-> recurse, raise_on_error |-> raise_on_error, entry |-> entry]

LineFrame(command, recurse, raise_on_error) ==
    [kind |-> "line", load_ctx |-> MutableLoadContext(0, "", 0), file |-> "",
     command |-> command, recurse |-> recurse,
     raise_on_error |-> raise_on_error, entry |-> << >>]

Top == frames[Len(frames)]

\* The lines of a file entered through a redirect.
FileLines(fn) == IF fn \in DOMAIN ScriptFiles THEN ScriptFiles[fn] ELSE << >>

\* load_ctx.line = lineno, on the object the frame created.
SetLine(s, id, lineno) ==
    [s EXCEPT !.load_context =
        [i \in 1..Len(@) |-> IF @[i].id = id THEN [@[i] EXCEPT !.line = lineno]
                             ELSE @[i]]]

\* Where a result comes from: (context object, line) of every script
\* generator running when it was yielded, outermost first.
ScriptChain(frs) ==
    LET scripts == SelectSeq(frs, LAMBDA f : f.kind = "script")
    IN [i \in 1..Len(scripts) |-> << scripts[i].load_ctx.id, scripts[i].load_ctx.line >>]

Depth(frs) == Len(SelectSeq(frs, LAMBDA f : f.kind = "script"))

\* The finally clause of interpret_shell_script: load_context.remove.
\* list.remove raises ValueError when no element is equal.
ExitFrame(s, f) ==
    IF IndexOf(s.load_context, f.load_ctx) = 0
    THEN [sh |-> s, raised |-> TRUE]
    ELSE [sh |-> [s EXCEPT !.load_context = list_remove(@, f.load_ctx)],
          raised |-> FALSE]

ExitRecord(f, after, how) ==
    [id |-> f.load_ctx.id, file |-> f.file, lines |-> f.load_ctx.line,
     before |-> f.entry, after |-> after, how |-> how]

\* An exception leaving the innermost generator runs the finally clause of
\* every enclosing interpret_shell_script, innermost first.
RECURSIVE Unwind(_, _, _)
Unwind(s, frs, exs) ==
    IF frs = << >> THEN [sh |-> s, exits |-> exs]
    ELSE LET f == frs[Len(frs)]
             rest == SubSeq(frs, 1, Len(frs) - 1)
         IN IF f.kind = "script"
            THEN LET x == ExitFrame(s, f)
                 IN Unwind(x.sh, rest,
                           Append(exs, ExitRecord(f, x.sh.load_context, "raised")))
            ELSE Unwind(s, rest, exs)

\* ---------------------------------------------------------------- actions
\* The caller starts interpret_shell_script(lines, name, recurse,
\* raise_on_error): the generator creates its load context and pushes it.
Call(recurse, raise_on_error) ==
    /\ status = "new"
    /\ LET ctx == MutableLoadContext(nctx + 1, TopName, 0)
       IN /\ frames' = << ScriptFrame(ctx, "", recurse, raise_on_error,
                                      sh.load_context) >>
          /\ sh' = [sh EXCEPT !.load_context = Append(@, ctx)]
    /\ nctx' = nctx + 1
    /\ status' = "running"
    /\ opts' = [recurse |-> recurse, raise_on_error |-> raise_on_error]
    /\ UNCHANGED << results, ninv, last, exits, atInit, firstViolation >>
    /\ UNCHANGED lvars

\* The lines the innermost generator may interpret next: the command of a
\* pending re-invocation, the next line of a file, or any line for the
\* caller's script (its lines are decided as they are consumed).
CurrentLines ==
    IF status # "running" THEN {}
    ELSE IF Top.kind = "line" THEN {Top.command}
    ELSE IF Top.file = ""
         THEN IF Top.load_ctx.line < MaxLines THEN ScriptLines ELSE {}
    ELSE IF Top.load_ctx.line < Len(FileLines(Top.file))
         THEN {FileLines(Top.file)[Top.load_ctx.line + 1]}
    ELSE {}

\* The commands that break the load order: records before a schema, a load
\* after iocInit, an option on a port that is not registered.
LoadOrderViolation(argv, s) ==
    \/ argv[1] = "dbLoadRecords" /\ (s.database_definition = NoDbd \/ s.ioc_initialized)
    \/ argv[1] = "dbLoadDatabase" /\ s.ioc_initialized
    \/ argv[1] = "asynSetOption" /\ Len(argv) >= 2 /\ argv[2] \notin DOMAIN s.asyn_ports

\* The state and the generator stack as interpret_shell_line is entered:
\* a for-loop pass first sets load_ctx.line; a re-invocation has returned
\* from the generator that yielded the iocshCmd result.
EnterLine(f) ==
    IF f.kind = "script" THEN SetLine(sh, f.load_ctx.id, f.load_ctx.line + 1) ELSE sh

BaseFrames(f) ==
    IF f.kind = "script"
    THEN [frames EXCEPT ![Len(frames)].load_ctx.line = f.load_ctx.line + 1]
    ELSE SubSeq(frames, 1, Len(frames) - 1)

\* An exception leaves interpret_shell_line: every generator is unwound.
Propagate(un) ==
    /\ sh' = un.sh
    /\ exits' = un.exits
    /\ frames' = << >>
    /\ status' = "raised"

\* What interpret_shell_line did (`eff') takes effect: the yielded results
\* reach the caller and the generator delegated to, if any, is started
\* (a nested interpret_shell_script pushes its load context).
Advance(line, f, s0, base, eff, argv) ==
    /\ eff.call.kind = "script" => Depth(base) < MaxDepth
    /\ ninv' = ninv + 1
    /\ results' = results \o
         [i \in 1..Len(eff.yields) |->
            [line |-> eff.yields[i].line, context |-> eff.yields[i].context,
             error |-> eff.yields[i].error, result |-> eff.yields[i].result,
             inv |-> ninv + 1, chain |-> ScriptChain(base),
             opened |-> IF eff.call.kind = "script" THEN nctx + 1 ELSE 0]]
    /\ nctx' = IF eff.call.kind = "script" THEN nctx + 1 ELSE nctx
    /\ last' = IF eff.outcome.exc # "none"
               THEN [inv |-> ninv + 1, line |-> line, argv |-> argv,
                     before |-> s0, after |-> eff.outcome.sh,
                     raised |-> eff.outcome.raised,
                     result |-> eff.outcome.result,
                     strict |-> f.raise_on_error, propagated |-> eff.raised]
               ELSE last
    /\ atInit' = IF eff.outcome.exc # "none" /\ ~atInit.done
                    /\ ~eff.outcome.raised /\ argv[1] = "iocInit"
                 THEN [done |-> TRUE, database |-> eff.sh.database,
                       database_definition |-> eff.sh.database_definition]
                 ELSE atInit
    /\ firstViolation' = IF firstViolation = 0 /\ eff.outcome.exc # "none"
                               /\ LoadOrderViolation(argv, s0)
                          THEN ninv + 1 ELSE firstViolation
    /\ IF eff.raised
       THEN Propagate(Unwind(eff.sh, base, exits))
       ELSE /\ sh' = IF eff.call.kind = "script"
                     THEN [eff.sh EXCEPT !.load_context =
                             Append(@, MutableLoadContext(nctx + 1, eff.call.name, 0))]
                     ELSE eff.sh
            /\ frames' =
                 CASE eff.call.kind = "script" ->
                          Append(base, ScriptFrame(
                              MutableLoadContext(nctx + 1, eff.call.name, 0),
                              eff.call.name, eff.call.recurse,
                              eff.call.raise_on_error, eff.sh.load_context))
                   [] eff.call.kind = "line" ->
                          Append(base, LineFrame(eff.call.command,
                                     eff.call.recurse, eff.call.raise_on_error))
                   [] OTHER -> base
            /\ UNCHANGED << status, exits >>
    /\ UNCHANGED opts
    /\ UNCHANGED lvars

\* One pass of the for loop of interpret_shell_script (or the re-invocation
\* of an iocshCmd command): interpret_shell_line on `line', up to and
\* including its yield, and the start of the generator it delegates to.
Run(line, f, s0) ==
    Advance(line, f, s0, BaseFrames(f),
            interpret_shell_line(s0, line, f.recurse, f.raise_on_error),
            parse_iocsh_line(line).argv)

Interpret(line) ==
    /\ line \in CurrentLines
    /\ Run(line, Top, EnterLine(Top))

IsCommand(line, name) ==
    LET p == parse_iocsh_line(line)
    IN /\ ~p.error
       /\ SelectSeq(p.redirects, LAMBDA r : r.mode = "r") = << >>
       /\ p.argv # << >>
       /\ IF name = "" THEN p.argv[1] \notin _handlers ELSE p.argv[1] = name

\* A line the parser rejects.
ParseErrorLine ==
    \E line \in CurrentLines : parse_iocsh_line(line).error /\ Interpret(line)

\* A line with an input redirect.
InputRedirectLine ==
    \E line \in CurrentLines :
        /\ ~parse_iocsh_line(line).error
        /\ SelectSeq(parse_iocsh_line(line).redirects, LAMBDA r : r.mode = "r") # << >>
        /\ Interpret(line)

\* An empty or comment-only line.
EmptyLine ==
    \E line \in CurrentLines :
        /\ ~parse_iocsh_line(line).error
        /\ parse_iocsh_line(line).redirects = << >>
        /\ parse_iocsh_line(line).argv = << >>
        /\ Interpret(line)

dbLoadDatabase == \E line \in CurrentLines : IsCommand(line, "dbLoadDatabase") /\ Interpret(line)

dbLoadRecords == \E line \in CurrentLines : IsCommand(line, "dbLoadRecords") /\ Interpret(line)

iocInit == \E line \in CurrentLines : IsCommand(line, "iocInit") /\ Interpret(line)

cd == \E line \in CurrentLines : IsCommand(line, "cd") /\ Interpret(line)

epicsEnvSet == \E line \in CurrentLines : IsCommand(line, "epicsEnvSet") /\ Interpret(line)

iocshCmd == \E line \in CurrentLines : IsCommand(line, "iocshCmd") /\ Interpret(line)

drvAsynIPPortConfigure ==
    \E line \in CurrentLines : IsCommand(line, "drvAsynIPPortConfigure") /\ Interpret(line)

asynSetOption == \E line \in CurrentLines : IsCommand(line, "asynSetOption") /\ Interpret(line)

\* A command no handler is registered for.
UnhandledCommand == \E line \in CurrentLines : IsCommand(line, "") /\ Interpret(line)

Return(f, rest, x) ==
    IF x.raised
    THEN Propagate(Unwind(x.sh, rest,
                          Append(exits, ExitRecord(f, x.sh.load_context, "raised"))))
    ELSE /\ sh' = x.sh
         /\ exits' = Append(exits, ExitRecord(f, x.sh.load_context, "exhausted"))
         /\ frames' = rest
         /\ status' = IF rest = << >> THEN "done" ELSE "running"

\* The lines of the innermost interpret_shell_script are exhausted: its
\* finally clause runs and the generator returns to the one that delegated
\* to it. The caller's script may end after any line.
ScriptEnd ==
    /\ status = "running"
    /\ Top.kind = "script"
    /\ Top.file # "" => Top.load_ctx.line = Len(FileLines(Top.file))
    /\ Return(Top, SubSeq(frames, 1, Len(frames) - 1), ExitFrame(sh, Top))
    /\ UNCHANGED << opts, results, nctx, ninv, last, atInit, firstViolation >>
    /\ UNCHANGED lvars

Next ==
    \/ \E recurse \in BOOLEAN, raise_on_error \in BOOLEAN : Call(recurse, raise_on_error)
    \/ ParseErrorLine
    \/ InputRedirectLine
    \/ EmptyLine
    \/ dbLoadDatabase
    \/ dbLoadRecords
    \/ iocInit
    \/ cd
    \/ epicsEnvSet
    \/ iocshCmd
    \/ drvAsynIPPortConfigure
    \/ asynSetOption
    \/ UnhandledCommand
    \/ ScriptEnd

Spec == Init /\ [][Next]_vars

\* ------------------------------------------------- direct handler calls
\* ShellState.handle_command called directly, one command after another,
\* on a fresh ShellState whose load-context stack is empty.
MaxCalls == 4

\* The argument vectors the caller passes.
CommandArgvs ==
    { << "dbLoadDatabase", "base.dbd" >>,
      << "dbLoadRecords", "recs.db", "P=t:" >>,
      << "dbLoadRecords", "more.db", "P=t:" >>,
      << "dbLoadRecords", "grp.db", "P=t:" >>,
      << "dbLoadRecords", "bad.db", "P=t:" >>,
      << "dbLoadDatabase", "base.dbd", "", "P=t:" >>,
      << "dbLoadDatabase", "recs.db", "", "P=t:" >>,
      << "epicsEnvSet", "P", "x:" >>,
      << "iocInit" >>,
      << "NDPvaConfigure", "ND1", "20", "0", "CAM", "0", "t:image" >>,
      << "drvAsynSerialPortConfigure" >>,
      << "drvAsynSerialPortConfigure", "" >>,
      << "drvAsynSerialPortConfigure", "S1", "/dev/ttyS0" >>,
      << "drvAsynIPPortConfigure" >>,
      << "drvAsynIPPortConfigure", "P1", "host:1" >>,
      << "adsAsynPortDriverConfigure" >>,
      << "adsAsynPortDriverConfigure", "", "10.0.0.1" >>,
      << "drvAsynMotorConfigure" >>,
      << "drvAsynMotorConfigure", "", "drv" >>,
      << "EthercatMCCreateController" >>,
      << "EthercatMCCreateController", "M1", "P1", "1" >> }

InitCommands ==
    /\ NoLoader
    /\ sh = NewShellState
    /\ frames = << >>
    /\ status = "direct"
    /\ opts = [recurse |-> TRUE, raise_on_error |-> TRUE]
    /\ results = << >>
    /\ nctx = 0
    /\ ninv = 0
    /\ last = NoLast
    /\ exits = << >>
    /\ atInit = [done |-> FALSE, database |-> EmptyDict,
                 database_definition |-> NoDbd]
    /\ firstViolation = 0

\* The call handle_command(*argv) ended as `out'.
Handled(argv, out) ==
    /\ sh' = out.sh
    /\ ninv' = ninv + 1
    /\ last' = [inv |-> ninv + 1, line |-> "", argv |-> argv, before |-> sh,
                after |-> out.sh, raised |-> out.raised, result |-> out.result,
                strict |-> TRUE, propagated |-> out.raised]
    /\ UNCHANGED << frames, status, opts, results, nctx, exits, atInit,
                    firstViolation >>
    /\ UNCHANGED lvars

HandleCommand ==
    /\ status = "direct"
    /\ ninv < MaxCalls
    /\ \E argv \in CommandArgvs : Handled(argv, handle_command(sh, argv))

NextCommands == HandleCommand

SpecCommands == InitCommands /\ [][NextCommands]_vars

\* --------------------------------------------------------- path resolution
\* _fix_path called on ShellStates that differ in their stand-in table and
\* working directory. The most entries a stand-in table has:
MaxStandins == 2

\* The entries a table is made of: two prefixes, one inside the other,
\* and a third apart from both.
StandinEntries ==
    { [from_ |-> "/old/", to |-> "/a/"],
      [from_ |-> "/old/sub/", to |-> "/b/"],
      [from_ |-> "/opt/", to |-> "/b/"] }

\* The stand-in tables (dicts, in insertion order) of at most n entries.
RECURSIVE StandinTables(_)
StandinTables(n) ==
    IF n = 0 THEN { << >> }
    ELSE StandinTables(n - 1)
         \cup UNION { { Append(tbl, e) :
                          e \in {y \in StandinEntries :
                                    \A k \in DOMAIN tbl : tbl[k].from_ # y.from_} } :
                      tbl \in {x \in StandinTables(n - 1) : Len(x) = n - 1} }

\* The filenames resolved: under the nested prefixes, under the other
\* one, under none, and relative.
PathInputs ==
    { "/old/x.cmd", "/old/sub/x.cmd", "/opt/x.cmd", "/a/x.cmd", "x.cmd" }

InitPaths ==
    /\ NoLoader
    /\ \E tbl \in StandinTables(MaxStandins) : \E dir \in Dirs :
          sh = [NewShellState EXCEPT !.standin_directories = tbl,
                                     !.working_directory = dir]
    /\ frames = << >>
    /\ status = "paths"
    /\ opts = [recurse |-> TRUE, raise_on_error |-> TRUE]
    /\ results = << >>
    /\ nctx = 0
    /\ ninv = 0
    /\ last = NoLast
    /\ exits = << >>
    /\ atInit = [done |-> FALSE, database |-> EmptyDict,
                 database_definition |-> NoDbd]
    /\ firstViolation = 0

\* One call of _fix_path(filename).
FixPath ==
    /\ status = "paths"
    /\ ninv < MaxCalls
    /\ \E filename \in PathInputs :
          Handled(<< "_fix_path", filename >>,
                  Returns(sh, StrValue(_fix_path(sh, filename))))

NextPaths == FixPath

SpecPaths == InitPaths /\ [][NextPaths]_vars

\* ------------------------------------------------------ concurrent loader
\* load_startup_scripts_with_metadata(*md_items, standin_directories,
\* processes): the IOC descriptors handed in, and the largest pool size.
NumIocs == 3

MaxProcesses == 2

Iocs == 1..NumIocs

\* md.script of descriptor i: the descriptors name distinct scripts.
ScriptOf(i) == "/a/ioc" \o ToString(i) \o ".cmd"

\* The lines of the startup script of descriptor i (no input redirect and
\* no iocshCmd among them).
IocScript(i) ==
    CASE i % 3 = 1 -> << "dbLoadDatabase base.dbd", "dbLoadRecords recs.db P=t:",
                         "drvAsynIPPortConfigure P1 host:1" >>
      [] i % 3 = 2 -> << "dbLoadDatabase base.dbd", "dbLoadRecords more.db P=t:" >>
      [] OTHER     -> << "epicsEnvSet IOC ioc1", "dbLoadDatabase base.dbd",
                         "iocInit" >>

\* The for loop of interpret_shell_script over lines none of which
\* delegates to another generator.
RECURSIVE InterpretLines(_, _, _)
InterpretLines(s, lines, lineno) ==
    IF lineno > Len(lines) THEN s
    ELSE InterpretLines(
             interpret_shell_line(SetLine(s, 1, lineno), lines[lineno],
                                  TRUE, FALSE).sh,
             lines, lineno + 1)

\* interpret_shell_script(lines, name=name), run to exhaustion.
interpret_shell_script(s, lines, name) ==
    [InterpretLines([s EXCEPT !.load_context =
                        Append(@, MutableLoadContext(1, name, 0))],
                    lines, 1)
        EXCEPT !.load_context =
            list_remove(@, MutableLoadContext(1, name, Len(lines)))]

\* LoadedIoc: the metadata (script and load_error), the ShellState, and the
\* script as its lines.
LoadedIoc(script, load_error, shell_state, lines) ==
    [metadata |-> [script |-> script, load_error |-> load_error],
     shell_state |-> shell_state, script |-> lines]

NoLoadError == "None"

\* LoadedIoc.from_metadata: a ShellState seeded from the metadata, and the
\* startup script interpreted in it.
from_metadata(i) ==
    LoadedIoc(ScriptOf(i), NoLoadError,
              interpret_shell_script(NewShellState, IocScript(i), ScriptOf(i)),
              IocScript(i))

\* ShellState(): the dataclass defaults.
EmptyShellState ==
    [NewShellState EXCEPT !.standin_directories = << >>]

\* LoadedIoc.from_errored_load: the diagnostic text as load_error and as
\* the script lines, and an empty ShellState.
from_errored_load(i, ex) ==
    LoadedIoc(ScriptOf(i), ex, EmptyShellState, << ex >>)

\* apischema.serialize / deserialize of a LoadedIoc: macro_context is
\* skipped on the way out and is a new MacroContext on the way back.
serialize(loaded) ==
    [metadata |-> loaded.metadata, script |-> loaded.script,
     shell_state |->
        [k \in (DOMAIN loaded.shell_state) \ {"macro_context"} |->
            loaded.shell_state[k]]]

deserialize(ser) ==
    [metadata |-> ser.metadata, script |-> ser.script,
     shell_state |->
        [k \in DOMAIN NewShellState |->
            IF k = "macro_context" THEN EmptyDict ELSE ser.shell_state[k]]]

\* ScriptContainer.add_script
add_script(c, loaded) ==
    [scripts |-> Put(c.scripts, loaded.metadata.script, loaded),
     database |-> Update(c.database, loaded.shell_state.database),
     pva_database |-> Update(c.pva_database, loaded.shell_state.pva_database),
     loaded_files |-> Update(c.loaded_files, loaded.shell_state.loaded_files)]

\* What a future holds.
NoFuture == [kind |-> "none"]

ResultFuture(i, serialized) == [kind |-> "result", id |-> i, loaded |-> serialized]

ErrorFuture(i, ex) == [kind |-> "error", id |-> i, ex |-> ex]

RaisedFuture(ex) == [kind |-> "raised", ex |-> ex]

NoWork == [alive |-> FALSE]

Worker(i) == [kind |-> "worker", id |-> i]

Coordinator == [kind |-> "coordinator", id |-> 0]

Environment(i) == [kind |-> "environment", id |-> i]

\* The container is created and every load is submitted to the pool.
InitLoader ==
    /\ sh = NewShellState
    /\ frames = << >>
    /\ status = "loader"
    /\ opts = [recurse |-> TRUE, raise_on_error |-> FALSE]
    /\ results = << >>
    /\ nctx = 0
    /\ ninv = 0
    /\ last = NoLast
    /\ exits = << >>
    /\ atInit = [done |-> FALSE, database |-> EmptyDict,
                 database_definition |-> NoDbd]
    /\ firstViolation = 0
    /\ call \in [processes : 1..MaxProcesses,
                  standin_directories : {"None", "dict"},
                  missing : SUBSET Iocs]
    /\ job = [i \in Iocs |-> "pending"]
    /\ future = [i \in Iocs |-> NoFuture]
    /\ work = [i \in Iocs |-> NoWork]
    /\ completed = << >>
    /\ coord = NewCoordinator
    /\ container = ScriptContainer
    /\ lastAdd = NoAdd
    /\ actor = Coordinator

Unfinished == {i \in Iocs : job[i] \in {"pending", "running"}}

\* A worker process dying breaks the pool: no pending load is started.
Broken == \E i \in Iocs : future[i] = RaisedFuture("BrokenProcessPool")

\* A free worker process takes the load submitted first.
Start(i) ==
    /\ job[i] = "pending"
    /\ \A j \in Iocs : job[j] = "pending" => i <= j
    /\ Cardinality({j \in Iocs : job[j] = "running"}) < call.processes
    /\ ~Broken
    /\ job' = [job EXCEPT ![i] = "running"]
    /\ actor' = Worker(i)
    /\ UNCHANGED << call, future, work, completed, coord, container, lastAdd >>
    /\ UNCHANGED svars

\* The try block of _load: standin_directories is merged into the
\* metadata and the IOC is loaded.
LoadRaises(i) ==
    IF call.standin_directories = "None" THEN "TypeError"
    ELSE IF i \in call.missing THEN "FileNotFoundError"
    ELSE ""

\* A worker that adds what it loaded to the container itself.
Loads_AddsToContainer(i) ==
    /\ job[i] = "running"
    /\ LoadRaises(i) = ""
    /\ job' = [job EXCEPT ![i] = "succeeded"]
    /\ work' = [work EXCEPT ![i] = [alive |-> TRUE, sh |-> from_metadata(i).shell_state]]
    /\ future' = [future EXCEPT ![i] = ResultFuture(i, serialize(from_metadata(i)))]
    /\ completed' = Append(completed, i)
    /\ container' = add_script(container, from_metadata(i))
    /\ actor' = Worker(i)
    /\ UNCHANGED << call, coord, lastAdd >>
    /\ UNCHANGED svars

\* _load_ioc returns (identifier, elapsed, serialized).
Loads(i) ==
    /\ job[i] = "running"
    /\ LoadRaises(i) = ""
    /\ job' = [job EXCEPT ![i] = "succeeded"]
    /\ work' = [work EXCEPT ![i] = [alive |-> TRUE, sh |-> from_metadata(i).shell_state]]
    /\ future' = [future EXCEPT ![i] = ResultFuture(i, serialize(from_metadata(i)))]
    /\ completed' = Append(completed, i)
    /\ actor' = Worker(i)
    /\ UNCHANGED << call, coord, container, lastAdd >>
    /\ UNCHANGED svars

\* _load_ioc returns (identifier, elapsed, ex).
Fails(i) ==
    /\ job[i] = "running"
    /\ LoadRaises(i) # ""
    /\ job' = [job EXCEPT ![i] = "failed"]
    /\ future' = [future EXCEPT ![i] = ErrorFuture(i, LoadRaises(i))]
    /\ completed' = Append(completed, i)
    /\ actor' = Worker(i)
    /\ UNCHANGED << call, work, coord, container, lastAdd >>
    /\ UNCHANGED svars

\* The worker cannot hand its result over (it cannot be pickled): the
\* future of this load raises, the pool goes on.
SendFails(i) ==
    /\ job[i] = "running"
    /\ job' = [job EXCEPT ![i] = "failed"]
    /\ future' = [future EXCEPT ![i] = RaisedFuture("PicklingError")]
    /\ completed' = Append(completed, i)
    /\ actor' = Worker(i)
    /\ UNCHANGED << call, work, coord, container, lastAdd >>
    /\ UNCHANGED svars

\* The loads in `set', in the order of their submission.
RECURSIVE InOrder(_)
InOrder(set) ==
    IF set = {} THEN << >>
    ELSE LET i == CHOOSE x \in set : \A y \in set : x <= y
         IN << i >> \o InOrder(set \ {i})

\* The worker process of load i is terminated: the pool is broken and the
\* future of every load that is not done raises BrokenProcessPool.
Crash(i) ==
    /\ job[i] = "running"
    /\ job' = [j \in Iocs |-> IF j \in Unfinished THEN "failed" ELSE job[j]]
    /\ future' = [j \in Iocs |-> IF j \in Unfinished
                                  THEN RaisedFuture("BrokenProcessPool")
                                  ELSE future[j]]
    /\ completed' = completed \o InOrder(Unfinished)
    /\ actor' = Environment(i)
    /\ UNCHANGED << call, work, coord, container, lastAdd >>
    /\ UNCHANGED svars

\* The future as_completed hands to the coordinator next.
NextCompleted == completed[coord.handled + 1]

Awaiting ==
    ~coord.returned /\ ~coord.interrupted /\ coord.handled < Len(completed)

\* `await coro' raises: the error is printed and the loop continues.
SkipRaised ==
    /\ Awaiting
    /\ future[NextCompleted].kind = "raised"
    /\ coord' = [coord EXCEPT !.handled = @ + 1]
    /\ actor' = Coordinator
    /\ UNCHANGED << call, job, future, work, completed, container, lastAdd >>
    /\ UNCHANGED svars

\* The coordinator adds `loaded', the outcome of load i, to the container.
Add(i, loaded) ==
    /\ container' = add_script(container, loaded)
    /\ lastAdd' = [done |-> TRUE, id |-> i, before |-> container, loaded |-> loaded]
    /\ coord' = [coord EXCEPT !.handled = @ + 1, !.added = Append(@, i)]
    /\ actor' = Coordinator
    /\ UNCHANGED << call, job, future, work, completed >>
    /\ UNCHANGED svars

\* The result is an exception, and the loop continues without adding.
AddErrored_Skips ==
    /\ Awaiting
    /\ future[NextCompleted].kind = "error"
    /\ coord' = [coord EXCEPT !.handled = @ + 1]
    /\ actor' = Coordinator
    /\ UNCHANGED << call, job, future, work, completed, container, lastAdd >>
    /\ UNCHANGED svars

\* The result is an exception: an errored placeholder is added.
AddErrored ==
    /\ Awaiting
    /\ future[NextCompleted].kind = "error"
    /\ Add(future[NextCompleted].id,
           from_errored_load(future[NextCompleted].id, future[NextCompleted].ex))

\* The result is a serialized LoadedIoc: it is deserialized and added.
AddLoaded ==
    /\ Awaiting
    /\ future[NextCompleted].kind = "result"
    /\ Add(future[NextCompleted].id, deserialize(future[NextCompleted].loaded))

\* Every future has been handled: the container is returned.
ReturnContainer ==
    /\ ~coord.returned
    /\ ~coord.interrupted
    /\ coord.handled = NumIocs
    /\ coord' = [coord EXCEPT !.returned = TRUE]
    /\ actor' = Coordinator
    /\ UNCHANGED << call, job, future, work, completed, container, lastAdd >>
    /\ UNCHANGED svars

\* KeyboardInterrupt (or the cancellation asyncio makes of it) is raised in
\* the coordinator: nothing in load_startup_scripts_with_metadata catches
\* it, so it leaves the loop over the completed futures.
Interrupt ==
    /\ ~coord.returned
    /\ ~coord.interrupted
    /\ coord' = [coord EXCEPT !.interrupted = TRUE,
                              !.pendingThen = {i \in Iocs : job[i] = "pending"},
                              !.addedThen = coord.added]
    /\ actor' = Environment(0)
    /\ UNCHANGED << call, job, future, work, completed, container, lastAdd >>
    /\ UNCHANGED svars

\* The exception leaves the `with' block of the executor, whose exit waits
\* for every submitted load (shutdown(wait=True)), and then leaves the
\* function: no container is returned.
InterruptPropagates ==
    /\ coord.interrupted
    /\ coord.raised = ""
    /\ Unfinished = {}
    /\ coord' = [coord EXCEPT !.raised = "KeyboardInterrupt"]
    /\ actor' = Coordinator
    /\ UNCHANGED << call, job, future, work, completed, container, lastAdd >>
    /\ UNCHANGED svars

NextLoader ==
    \/ \E i \in Iocs : Start(i)
    \/ \E i \in Iocs : Loads(i)
    \/ \E i \in Iocs : Fails(i)
    \/ \E i \in Iocs : SendFails(i)
    \/ \E i \in Iocs : Crash(i)
    \/ SkipRaised
    \/ AddErrored
    \/ AddLoaded
    \/ ReturnContainer
    \/ Interrupt
    \/ InterruptPropagates

SpecLoader == InitLoader /\ [][NextLoader]_vars

\* ---------------------------------------------------------- serial loader
\* load_startup_scripts(*fns, standin_directories, processes): the most
\* filenames handed in; each is the script of one descriptor, and a
\* filename may be given more than once.
MaxFiles == 3

RECURSIVE FilenameLists(_)
FilenameLists(n) ==
    IF n = 0 THEN { << >> }
    ELSE FilenameLists(n - 1)
         \cup { Append(fns, i) : fns \in {f \in FilenameLists(n - 1) : Len(f) = n - 1},
                                 i \in Iocs }

\* sorted(set(fns))
SortedSet(fns) == InOrder({fns[k] : k \in DOMAIN fns})

\* The container is created and the number of distinct files is counted.
InitSerial ==
    /\ sh = NewShellState
    /\ frames = << >>
    /\ status = "serial"
    /\ opts = [recurse |-> TRUE, raise_on_error |-> FALSE]
    /\ results = << >>
    /\ nctx = 0
    /\ ninv = 0
    /\ last = NoLast
    /\ exits = << >>
    /\ atInit = [done |-> FALSE, database |-> EmptyDict,
                 database_definition |-> NoDbd]
    /\ firstViolation = 0
    /\ call \in [processes : 1..MaxProcesses,
                  standin_directories : {"dict"},
                  missing : SUBSET Iocs,
                  fns : FilenameLists(MaxFiles)]
    /\ job = [i \in Iocs |-> "pending"]
    /\ future = << >>
    /\ work = << >>
    /\ completed = << >>
    /\ coord = NewCoordinator
    /\ container = ScriptContainer
    /\ lastAdd = NoAdd
    /\ actor = Coordinator

\* The else branch is running: processes is 1, and the call has neither
\* left the try statement nor ended.
InTry ==
    /\ call.processes <= 1
    /\ ~coord.returned
    /\ ~coord.interrupted
    /\ coord.raised = ""

\* The for statement binds idx and fn to the next of the sorted distinct
\* filenames.
SerialNext ==
    /\ InTry
    /\ \A i \in Iocs : job[i] # "running"
    /\ coord.handled < Len(SortedSet(call.fns))
    /\ coord' = [coord EXCEPT !.handled = @ + 1]
    /\ job' = [job EXCEPT ![SortedSet(call.fns)[coord.handled + 1]] = "running"]
    /\ actor' = Coordinator
    /\ UNCHANGED << call, future, work, completed, container, lastAdd >>
    /\ UNCHANGED svars

\* The body of the loop: the IOC is loaded and added to the container.
SerialLoad(i) ==
    /\ InTry
    /\ job[i] = "running"
    /\ LoadRaises(i) = ""
    /\ job' = [job EXCEPT ![i] = "succeeded"]
    /\ container' = add_script(container, from_metadata(i))
    /\ lastAdd' = [done |-> TRUE, id |-> i, before |-> container,
                   loaded |-> from_metadata(i)]
    /\ coord' = [coord EXCEPT !.added = Append(@, i)]
    /\ actor' = Coordinator
    /\ UNCHANGED << call, future, work, completed >>
    /\ UNCHANGED svars

\* The load raises: only KeyboardInterrupt is caught, so the exception
\* leaves load_startup_scripts.
SerialLoadRaises(i) ==
    /\ InTry
    /\ job[i] = "running"
    /\ LoadRaises(i) # ""
    /\ job' = [job EXCEPT ![i] = "failed"]
    /\ coord' = [coord EXCEPT !.raised = LoadRaises(i)]
    /\ actor' = Coordinator
    /\ UNCHANGED << call, future, work, completed, container, lastAdd >>
    /\ UNCHANGED svars

\* KeyboardInterrupt is raised inside the try statement: the load under
\* way is given up and the handler sets total_files = idx, which raises
\* UnboundLocalError when the for statement has not bound idx yet.
SerialInterrupt ==
    /\ InTry
    /\ coord' = [coord EXCEPT
                    !.interrupted = TRUE,
                    !.pendingThen = {i \in Iocs : job[i] = "pending"},
                    !.addedThen = coord.added,
                    !.raised = IF coord.handled = 0 THEN "UnboundLocalError"
                               ELSE ""]
    /\ job' = [i \in Iocs |-> IF job[i] = "running" THEN "failed" ELSE job[i]]
    /\ actor' = Environment(0)
    /\ UNCHANGED << call, future, work, completed, container, lastAdd >>
    /\ UNCHANGED svars

\* The branch taken is over (the one for processes > 1 holds nothing but
\* an Ellipsis): the container is returned.
SerialReturn ==
    /\ ~coord.returned
    /\ coord.raised = ""
    /\ \/ call.processes > 1
       \/ coord.interrupted
       \/ /\ coord.handled = Len(SortedSet(call.fns))
          /\ \A i \in Iocs : job[i] # "running"
    /\ coord' = [coord EXCEPT !.returned = TRUE]
    /\ actor' = Coordinator
    /\ UNCHANGED << call, job, future, work, completed, container, lastAdd >>
    /\ UNCHANGED svars

NextSerial ==
    \/ SerialNext
    \/ \E i \in Iocs : SerialLoad(i)
    \/ \E i \in Iocs : SerialLoadRaises(i)
    \/ SerialInterrupt
    \/ SerialReturn

SpecSerial == InitSerial /\ [][NextSerial]_vars

\* ------------------------------------------------------------ properties
\* The ShellState without its load-context stack.
Stores(s) == [s EXCEPT !.load_context = << >>]

Dispatched == last.inv # 0

\* The results one interpret_shell_line invocation yielded.
ResultsOf(inv) == {i \in DOMAIN results : results[i].inv = inv}

\* The results yielded while script generator `id' was at line k.
ResultsAt(id, k) ==
    {i \in DOMAIN results :
        \E c \in DOMAIN results[i].chain : results[i].chain[c] = << id, k >>}

\* The results yielded while script generator `id' was running.
ResultsIn(id) ==
    {i \in DOMAIN results :
        \E c \in DOMAIN results[i].chain : results[i].chain[c][1] = id}

\* Result r belongs to a line of a redirected file: once that file's
\* generator has returned, every later line of the file has a result.
LaterLinesInterpreted(r) ==
    LET at == r.chain[Len(r.chain)] IN
    \A e \in DOMAIN exits :
        (exits[e].id = at[1] /\ exits[e].file # "")
        => \A k \in (at[2] + 1)..Len(FileLines(exits[e].file)) :
               ResultsAt(at[1], k) # {}

\* C1: on a ShellState with no schema attached, dbLoadRecords raises, for
\* every filename and macro string, and the record store, the
\* structured-record store and the file ledger are left unchanged.
C1_LoadRecordsWithoutSchemaRaises ==
    (Dispatched /\ last.argv[1] = "dbLoadRecords"
        /\ last.before.database_definition = NoDbd)
    => /\ last.raised
       /\ last.after.database = last.before.database
       /\ last.after.pva_database = last.before.pva_database
       /\ last.after.loaded_files = last.before.loaded_files
       /\ ninv = last.inv =>
            /\ sh.database = last.before.database
            /\ sh.pva_database = last.before.pva_database
            /\ sh.loaded_files = last.before.loaded_files

C1_Witness ==
    /\ Dispatched /\ last.argv = << "dbLoadRecords", "recs.db", "P=t:" >>
    /\ last.before.database_definition = NoDbd
    /\ ~last.before.ioc_initialized
    /\ last.raised
    /\ ninv = last.inv

\* C2: with a schema attached and the IOC not initialized, a further
\* dbLoadDatabase does not raise; it returns the no-op marker and leaves the
\* attached schema, the record store and the file ledger unchanged.
C2_SecondLoadDatabaseIsNoOp ==
    (Dispatched /\ last.argv[1] = "dbLoadDatabase"
        /\ last.before.database_definition # NoDbd
        /\ ~last.before.ioc_initialized)
    => /\ ~last.raised
       /\ last.result = StrValue("whatrecord: TODO multiple dbLoadDatabase")
       /\ last.after.database_definition = last.before.database_definition
       /\ last.after.database = last.before.database
       /\ last.after.loaded_files = last.before.loaded_files
       /\ ninv = last.inv =>
            /\ sh.database_definition = last.before.database_definition
            /\ sh.database = last.before.database
            /\ sh.loaded_files = last.before.loaded_files

C2_Witness ==
    /\ Dispatched /\ last.argv[1] = "dbLoadDatabase"
    /\ last.before.database_definition = "/a/base.dbd"
    /\ ~last.before.ioc_initialized
    /\ ~last.raised
    /\ ninv = last.inv

\* C3: once iocInit has been handled the initialized flag stays set, every
\* later dbLoadDatabase and dbLoadRecords raises, and neither the attached
\* schema nor the classic record store changes again.
C3_InitializedIsFinal ==
    atInit.done
    => /\ sh.ioc_initialized
       /\ sh.database_definition = atInit.database_definition
       /\ sh.database = atInit.database
       /\ (Dispatched /\ last.before.ioc_initialized
              /\ last.argv[1] \in {"dbLoadDatabase", "dbLoadRecords"})
          => last.raised

C3_Witness ==
    /\ atInit.done
    /\ atInit.database_definition = "/a/base.dbd"
    /\ Dispatched /\ last.before.ioc_initialized
    /\ last.argv = << "dbLoadRecords", "recs.db", "P=t:" >>
    /\ last.raised

\* C4 as stated: a load-order violation aborts the interpretation: no line
\* after the violating line is interpreted.
C4_ViolationAborts ==
    firstViolation # 0 => ninv = firstViolation

\* C4 as amended: a load-order violation raises from its handler and leaves
\* the ShellState unchanged; it ends the interpretation, with no later line
\* interpreted, exactly when the violating line was dispatched with
\* raise_on_error true; dispatched with raise_on_error false it is recorded
\* as the error of that line's one result, and the later lines of a
\* redirected file are still interpreted.
C4_ViolationAbortsOnlyWhenStrict ==
    /\ (Dispatched /\ LoadOrderViolation(last.argv, last.before))
       => /\ last.raised
          /\ last.after = last.before
          /\ last.propagated = last.strict
          /\ last.strict => ResultsOf(last.inv) = {}
          /\ ~last.strict =>
               /\ Cardinality(ResultsOf(last.inv)) = 1
               /\ \A i \in ResultsOf(last.inv) :
                      /\ results[i].error = "Failed to execute"
                      /\ LaterLinesInterpreted(results[i])
    /\ status = "raised"
       => /\ frames = << >>
          /\ last.propagated /\ last.strict
          /\ ninv = last.inv

C4_Witness ==
    /\ Dispatched /\ LoadOrderViolation(last.argv, last.before)
    /\ last.argv = << "dbLoadRecords", "recs.db", "P=t:" >>
    /\ last.strict
    /\ status = "raised"
    /\ Len(results) > 0

C6_StrictPropagatesEverywhere ==
    (opts.raise_on_error /\ Dispatched /\ last.raised) => last.propagated

\* C7 as stated: when interpret_shell_script ends, the load-context stack
\* is what it was before the call.
C7_StackRestoredOnExit ==
    \A e \in DOMAIN exits : exits[e].after = exits[e].before

\* A script file whose lines carry no input redirect and no iocshCmd.
PlainFile(fn) ==
    /\ fn \in DOMAIN ScriptFiles
    /\ \A k \in DOMAIN ScriptFiles[fn] :
          LET p == parse_iocsh_line(ScriptFiles[fn][k])
          IN /\ \A r \in DOMAIN p.redirects : p.redirects[r].mode # "r"
             /\ p.argv # << >> => p.argv[1] # "iocshCmd"

\* C8: with recursion enabled, a line with an input redirect to a readable
\* file without redirects and iocshCmd yields exactly one result for the
\* redirect line, followed at once by exactly one result per line of the
\* file, in file order, and by no other result of that file.
C8_RedirectYieldsLineThenFile ==
    \A e \in DOMAIN exits :
        (exits[e].file # "" /\ PlainFile(exits[e].file))
        => \E i \in DOMAIN results :
              LET n == Len(FileLines(exits[e].file)) IN
              /\ results[i].opened = exits[e].id
              /\ ResultsOf(results[i].inv) = {i}
              /\ Len(results) >= i + n
              /\ \A k \in 1..n :
                    /\ results[i + k].line = FileLines(exits[e].file)[k]
                    /\ results[i + k].chain =
                           Append(results[i].chain, << exits[e].id, k >>)
                    /\ ResultsOf(results[i + k].inv) = {i + k}
              /\ ResultsIn(exits[e].id) = (i + 1)..(i + n)

\* The file was entered and left, and the next line of the including
\* script has yielded its result after the file's.
C8_Witness ==
    \E e \in DOMAIN exits, i \in DOMAIN results :
        /\ exits[e].file = "/a/plain.cmd"
        /\ results[i].opened = exits[e].id
        /\ results[i].line = "< /old/plain.cmd"
        /\ Len(results) > i + Len(FileLines("/a/plain.cmd"))

\* C9 as stated: for both settings of recurse, a script interpreted to its
\* end has yielded at least one result for each of its lines, and the
\* results of a line come before those of every later line.
C9_EveryLineYieldsInOrder ==
    status = "done"
    => /\ \A e \in DOMAIN exits :
             \A k \in 1..exits[e].lines : ResultsAt(exits[e].id, k) # {}
       /\ \A i, j \in DOMAIN results :
             i < j => \A a \in DOMAIN results[i].chain, b \in DOMAIN results[j].chain :
                         results[i].chain[a][1] = results[j].chain[b][1]
                         => results[i].chain[a][2] <= results[j].chain[b][2]

\* C10: a command without a registered handler is no error: handle_command
\* returns None without raising, the line's one result has no error, the
\* ShellState is unchanged, and interpretation goes on with the next line.
C10_UnhandledCommandIsNoError ==
    (Dispatched /\ last.argv[1] \notin _handlers)
    => /\ ~last.raised
       /\ ~last.propagated
       /\ last.result = NoneValue
       /\ last.after = last.before
       /\ Cardinality(ResultsOf(last.inv)) = 1
       /\ \A i \in ResultsOf(last.inv) :
             /\ results[i].error = ""
             /\ results[i].result = NoneValue
             /\ LaterLinesInterpreted(results[i])
       /\ ninv = last.inv => Stores(sh) = Stores(last.before) /\ status # "raised"

\* An unhandled command ran in strict mode in a redirected file and on the
\* caller's script, and a later line was interpreted.
C10_Witness ==
    /\ Dispatched /\ last.argv = << "unknownCommand", "arg" >>
    /\ last.strict
    /\ ninv > last.inv
    /\ \E i \in DOMAIN results, e \in DOMAIN exits :
          /\ results[i].line = "unknownCommand arg"
          /\ Len(results[i].chain) = 2
          /\ exits[e].id = results[i].chain[2][1]

\* The records and groups a dbLoadRecords call declares, read from the
\* file its first argument names under the macros of its second.
Declared(s, argv) ==
    Database_from_file(load_file(s, argv[2]).filename, definitions_to_dict(argv[3]))

\* A dbLoadRecords call that got as far as merging (lines 404-421).
Merging ==
    /\ Dispatched
    /\ last.argv[1] = "dbLoadRecords"
    /\ Len(last.argv) >= 3
    /\ last.before.database_definition # NoDbd
    /\ ~last.before.ioc_initialized
    /\ ~load_file(last.before, last.argv[2]).raised
    /\ ~Declared(last.before, last.argv).raised

\* The record `name' as this dbLoadRecords call would leave it in an empty
\* record store: the outcome of a single load.
SingleLoad(name) ==
    handle_dbLoadRecords(
        [last.before EXCEPT !.database = EmptyDict, !.pva_database = EmptyDict],
        Tail(last.argv)).sh.database[name]

\* C11: when dbLoadRecords loads a file a second time, every record of the
\* file that a single earlier load of the same file left in the store has
\* afterwards the field mapping of a single load, and as its provenance
\* context the context of the first load followed by the context of the
\* second, twice as long as the context of a single load.
C11_ReloadDoublesContext ==
    (Merging /\ ~last.raised) =>
        \A i \in DOMAIN Declared(last.before, last.argv).records :
            LET name == Declared(last.before, last.argv).records[i].name IN
            (/\ name \in DOMAIN last.before.database
             /\ last.before.database[name].fields = SingleLoad(name).fields
             /\ Len(last.before.database[name].context) = Len(SingleLoad(name).context)
             /\ last.before.database[name].context[Len(SingleLoad(name).context)]
                    = SingleLoad(name).context[Len(SingleLoad(name).context)])
            => /\ last.after.database[name].fields = SingleLoad(name).fields
               /\ last.after.database[name].context
                     = last.before.database[name].context \o SingleLoad(name).context
               /\ Len(last.after.database[name].context)
                     = 2 * Len(SingleLoad(name).context)

\* C12: when dbLoadRecords loads a record whose name is already in the
\* classic record store, the stored record keeps its name, type and kind,
\* every field of the new declaration has the declared value, every stored
\* field the declaration lacks keeps its value, and the earlier context is
\* a prefix of the new one.
C12_RedeclarationMergesFields ==
    (Merging /\ ~last.raised) =>
        \A i \in DOMAIN Declared(last.before, last.argv).records :
            LET decl == Declared(last.before, last.argv).records[i]
                name == decl.name
            IN name \in DOMAIN last.before.database =>
                LET old == last.before.database[name]
                    new == last.after.database[name]
                IN /\ new.name = old.name
                   /\ new.record_type = old.record_type
                   /\ new.is_pva = old.is_pva
                   /\ DOMAIN new.fields = DOMAIN old.fields \cup DOMAIN decl.fields
                   /\ \A f \in DOMAIN decl.fields : new.fields[f] = decl.fields[f]
                   /\ \A f \in DOMAIN old.fields \ DOMAIN decl.fields :
                         new.fields[f] = old.fields[f]
                   /\ Len(new.context) > Len(old.context)
                   /\ SubSeq(new.context, 1, Len(old.context)) = old.context

\* more.db re-declares t:rbv, which recs.db had put in the store with an
\* INP field more.db lacks and another VAL.
C12_Witness ==
    /\ Merging /\ ~last.raised
    /\ last.argv = << "dbLoadRecords", "more.db", "P=t:" >>
    /\ "t:rbv" \in DOMAIN last.before.database
    /\ last.before.database["t:rbv"].fields["VAL"] = "1"
    /\ "OUT" \notin DOMAIN last.before.database["t:rbv"].fields
    /\ last.after.database["t:rbv"].fields["VAL"] = "9"
    /\ last.after.database["t:rbv"].fields["INP"] = "@asyn(P1,0)"
    /\ last.after.database["t:rbv"].record_type = "ao"

\* C13: a dbLoadRecords call whose file declares structured groups does not
\* raise, leaves every declared group in the structured-record store, and
\* changes the classic store only by the classic records the file declares.
C13_GroupsStayInStructuredStore ==
    (Merging /\ Declared(last.before, last.argv).pva_groups # << >>) =>
        /\ ~last.raised
        /\ \A i \in DOMAIN Declared(last.before, last.argv).pva_groups :
              Declared(last.before, last.argv).pva_groups[i].name
                  \in DOMAIN last.after.pva_database
        /\ last.after.database =
              MergeRecords(last.before.database,
                           Declared(last.before, last.argv).records, 1,
                           get_load_context(last.before))

\* The link field of a record: INP, or else OUT.
LinkField(inst) ==
    IF "INP" \in DOMAIN inst.fields THEN inst.fields["INP"]
    ELSE IF "OUT" \in DOMAIN inst.fields THEN inst.fields["OUT"]
    ELSE ""

\* The link field names port `port': an asyn link, @asyn(port,addr) or
\* @asynMask(port,addr,mask).
References(inst, port) ==
    \E form \in {"@asyn(", "@asynMask("} :
        startswith(LinkField(inst), form \o port \o ",")

\* C19: for every classic record whose link field names a registered port,
\* whatrec returns that port in its port list, and when the port has a
\* parent, the parent port at an earlier position.
C19_LinkedPortResolved ==
    \A rec \in DOMAIN sh.database : \A port \in DOMAIN sh.asyn_ports :
        References(sh.database[rec], port) =>
            \E i \in DOMAIN whatrec(sh, rec, TRUE).asyn_ports :
                /\ whatrec(sh, rec, TRUE).asyn_ports[i] = sh.asyn_ports[port]
                /\ sh.asyn_ports[port].parent # NoParent =>
                      \E j \in 1..(i - 1) :
                          whatrec(sh, rec, TRUE).asyn_ports[j]
                              = PortGet(sh, sh.asyn_ports[port].parent)

\* The commands that configure a hardware port.
ConfigureCommands ==
    { "drvAsynSerialPortConfigure", "drvAsynIPPortConfigure",
      "adsAsynPortDriverConfigure", "drvAsynMotorConfigure",
      "EthercatMCCreateController" }

\* C20: a configure-hardware-port command called without its port-name
\* argument, or with an empty one, does not raise and leaves the port
\* registry as it was.
C20_ConfigureWithoutNameIsNoOp ==
    (Dispatched /\ last.argv[1] \in ConfigureCommands
        /\ Arg(last.argv, 2, "") = "")
    => /\ ~last.raised
       /\ last.after.asyn_ports = last.before.asyn_ports

\* The stores of a ShellState that cross the process boundary unchanged.
LoadedStores(s) ==
    [k \in {"database", "pva_database", "asyn_ports", "loaded_files",
            "ioc_initialized", "database_definition", "variables"} |-> s[k]]

\* Exactly one load raised inside _load, and every other load returned
\* its LoadedIoc.
ExactlyOneRaises ==
    /\ Cardinality({i \in Iocs : future[i].kind = "error"}) = 1
    /\ \A i \in Iocs : future[i].kind \in {"error", "result"}

\* C14: when exactly one of the NumIocs loads raises, the container that
\* load_startup_scripts_with_metadata returns has exactly NumIocs script
\* entries; the entry of the failing load carries the load_error marker
\* and an empty ShellState, every other entry carries no marker and the
\* stores its worker loaded; for every pool size and completion order.
C14_OneFailureAmongN ==
    (coord.returned /\ ExactlyOneRaises) =>
        /\ Cardinality(DOMAIN container.scripts) = NumIocs
        /\ \A i \in Iocs :
              /\ ScriptOf(i) \in DOMAIN container.scripts
              /\ future[i].kind = "error" =>
                    /\ container.scripts[ScriptOf(i)].metadata.load_error # NoLoadError
                    /\ container.scripts[ScriptOf(i)].shell_state = EmptyShellState
              /\ future[i].kind = "result" =>
                    /\ container.scripts[ScriptOf(i)].metadata.load_error = NoLoadError
                    /\ LoadedStores(container.scripts[ScriptOf(i)].shell_state)
                          = LoadedStores(work[i].sh)
                    /\ work[i].sh.database_definition # NoDbd

\* Two workers, the first load fails, and the second load completes
\* before the first.
C14_Witness ==
    /\ coord.returned /\ ExactlyOneRaises
    /\ call.processes = 2
    /\ future[1].kind = "error"
    /\ completed[1] = 2
    /\ container.scripts[ScriptOf(2)].shell_state.database # EmptyDict

\* C15: when load_startup_scripts_with_metadata has returned, every
\* submitted IOC has an entry in the container, and the entry of an IOC
\* whose future raised is an errored placeholder carrying the diagnostic.
C15_CrashedLoadHasPlaceholder ==
    coord.returned =>
        \A i \in Iocs :
            /\ ScriptOf(i) \in DOMAIN container.scripts
            /\ future[i].kind = "raised" =>
                  container.scripts[ScriptOf(i)].metadata.load_error # NoLoadError

\* C16: the container is changed only by steps of the coordinator, one
\* add_script per step; a step of a worker changes no ShellState but its
\* own and leaves the container alone.
C16_OnlyCoordinatorMutatesContainer ==
    [][/\ container' # container =>
            /\ actor' = Coordinator
            /\ Len(coord'.added) = Len(coord.added) + 1
       /\ \A i \in Iocs :
            /\ work'[i] # work[i] => actor' = Worker(i)
            /\ actor' = Worker(i) =>
                  /\ container' = container
                  /\ \A j \in Iocs \ {i} : work'[j] = work[j]]_vars

\* The coordinator has added a script while a worker is still running and
\* another has built its ShellState.
C16_Witness ==
    /\ lastAdd.done
    /\ \E i \in Iocs : job[i] = "running"
    /\ \E i \in Iocs : work[i].alive /\ i \notin {lastAdd.id}

\* The number of times load i was added to the container.
TimesAdded(added, i) == Cardinality({k \in DOMAIN added : added[k] = i})

\* C17: a load goes only from pending to running and from running to
\* succeeded or failed; once succeeded or failed it does not change; it is
\* added to the container at most once; and a step in which one load
\* fails changes no other load.
C17_LoadStateMachine ==
    [][\A i \in Iocs :
          /\ job'[i] # job[i] =>
                << job[i], job'[i] >> \in
                    { << "pending", "running" >>, << "running", "succeeded" >>,
                      << "running", "failed" >> }
          /\ job[i] \in {"succeeded", "failed"} =>
                job'[i] = job[i] /\ future'[i] = future[i]
          /\ TimesAdded(coord'.added, i) <= 1
          /\ (job[i] # "failed" /\ job'[i] = "failed") =>
                \A j \in Iocs \ {i} : job'[j] = job[j] /\ future'[j] = future[j]]_vars

\* C18: after add_script, a record whose name was already in the
\* container's record store has the stored fields, overwritten by the
\* fields of the added instance of the same name.
C18_AddScriptMergesFields ==
    lastAdd.done =>
        \A name \in (DOMAIN lastAdd.before.database)
                       \cap (DOMAIN lastAdd.loaded.shell_state.database) :
            container.database[name].fields =
                Update(lastAdd.before.database[name].fields,
                       lastAdd.loaded.shell_state.database[name].fields)

\* C21: an EthercatMCCreateController call that names a motor port and a
\* parent port that is not registered does not raise and registers the
\* motor port with that parent name; and a record linked to a motor port
\* whose parent is registered has the parent ahead of the motor in what
\* whatrec returns.
C21_ParentMayComeLater ==
    /\ (Dispatched /\ last.argv[1] = "EthercatMCCreateController"
           /\ Arg(last.argv, 2, "") # ""
           /\ Arg(last.argv, 3, "") \notin DOMAIN last.before.asyn_ports)
       => /\ ~last.raised
          /\ last.argv[2] \in DOMAIN last.after.asyn_ports
          /\ last.after.asyn_ports[last.argv[2]].parent = last.argv[3]
    /\ \A rec \in DOMAIN sh.database : \A port \in DOMAIN sh.asyn_ports :
          (/\ References(sh.database[rec], port)
           /\ sh.asyn_ports[port].parent \in DOMAIN sh.asyn_ports)
          => whatrec(sh, rec, TRUE).asyn_ports =
                << sh.asyn_ports[sh.asyn_ports[port].parent],
                   sh.asyn_ports[port] >>

\* C22: once an interrupt has arrived during a bulk load, no load that
\* was not started then is started, the call does not end by raising, and
\* the container it returns holds every load that had been added when the
\* interrupt arrived.
C22_InterruptKeepsCompleted ==
    coord.interrupted =>
        /\ \A i \in coord.pendingThen : job[i] = "pending"
        /\ coord.raised = ""
        /\ coord.returned =>
              \A k \in DOMAIN coord.addedThen :
                  ScriptOf(coord.addedThen[k]) \in DOMAIN container.scripts

\* The distinct filenames given to load_startup_scripts.
Given == {call.fns[k] : k \in DOMAIN call.fns}

\* C23: the container load_startup_scripts returns (when no load raised
\* and no interrupt arrived) has one script entry per distinct filename
\* given, and every record of each of those scripts, whatever the value of
\* processes.
C23_OneEntryPerFilename ==
    (coord.returned /\ ~coord.interrupted) =>
        /\ DOMAIN container.scripts = {ScriptOf(i) : i \in Given}
        /\ \A i \in Given :
              /\ container.scripts[ScriptOf(i)] = from_metadata(i)
              /\ \A name \in DOMAIN from_metadata(i).shell_state.database :
                    name \in DOMAIN container.database

\* The macros given to a dbLoadRecords or dbLoadDatabase call.
MacrosGiven(argv) ==
    definitions_to_dict(Arg(argv, IF argv[1] = "dbLoadRecords" THEN 3 ELSE 4, ""))

Matching(s, filename) ==
    {i \in 1..Len(s.standin_directories) :
        startswith(filename, s.standin_directories[i].from_)}

\* The filename with the prefix of stand-in entry e replaced.
Rewritten(e, filename) ==
    e.to \o SubSeq(filename, Len(e.from_) + 1, Len(filename))

\* C25: _fix_path rewrites an absolute filename with the matching
\* stand-in entry of the longest prefix, wherever that entry stands in the
\* table; a filename that matches no entry is resolved against the
\* working directory.
C25_LongestPrefixWins ==
    (Dispatched /\ last.argv[1] = "_fix_path") =>
        IF isabs(last.argv[2]) /\ Matching(last.before, last.argv[2]) # {}
        THEN \E i \in Matching(last.before, last.argv[2]) :
                /\ \A j \in Matching(last.before, last.argv[2]) :
                      Len(last.before.standin_directories[j].from_)
                          <= Len(last.before.standin_directories[i].from_)
                /\ last.result.text =
                      Rewritten(last.before.standin_directories[i], last.argv[2])
        ELSE last.result.text =
                 PathJoin(last.before.working_directory, last.argv[2])

\* The files that input-redirect to themselves, directly or through
\* another readable file.
SelfIncluding == {"/a/self.cmd", "/a/p.cmd", "/a/q.cmd"}

\* C26: no interpret_shell_script over a self-including file ever ends;
\* once such a script has interpreted its redirect line, a new
\* interpret_shell_script over a self-including file, with a load context
\* of its own, runs above it; and the load-context stack holds one context
\* for every script that runs.
C26_SelfInclusionNeverEnds ==
    /\ \A k \in DOMAIN exits : exits[k].file \notin SelfIncluding
    /\ \A k \in DOMAIN frames :
          (/\ frames[k].kind = "script"
           /\ frames[k].file \in SelfIncluding
           /\ frames[k].load_ctx.line > 0)
          => /\ k < Len(frames)
             /\ frames[k + 1].kind = "script"
             /\ frames[k + 1].file \in SelfIncluding
             /\ frames[k + 1].load_ctx.id > frames[k].load_ctx.id
    /\ (status = "running" /\ Top.file \in SelfIncluding)
       => Len(sh.load_context) = Depth(frames)

\* A script that includes itself is nested as deep as the model follows
\* it: every script above the caller's reads the same file.
C26_Witness ==
    /\ status = "running"
    /\ Depth(frames) = MaxDepth
    /\ Len(sh.load_context) = MaxDepth
    /\ \A k \in 2..Len(frames) : frames[k].file = "/a/self.cmd"

\* The same through a cycle of two files.
C26_WitnessCycle ==
    /\ status = "running"
    /\ Depth(frames) = MaxDepth
    /\ \A k \in 2..Len(frames) :
          frames[k].file = IF k % 2 = 0 THEN "/a/p.cmd" ELSE "/a/q.cmd"
====
